---------------------------- MODULE Spec2Model ----------------------------
(***************************************************************************)
(* A model of the content-generation engine of content_agent.py: the       *)
(* ContentCreationAgent, its five format builders, the helpers they share   *)
(* (_truncate_to_limit, _count_words, _extract_headings, _generate_seo_tags) *)
(* and generate_content, which runs the selected builder three times.       *)
(*                                                                         *)
(* Text is modelled by TLA+ strings, character for character.  Every        *)
(* non-ASCII character of the source's literals is written "~": none of     *)
(* them is whitespace, '#' or a line break, so lengths, word counts and      *)
(* headings are those of the source.                                        *)
(***************************************************************************)
EXTENDS Integers, Sequences, FiniteSets, TLC

(* ------------------------------ bounds -------------------------------- *)

\* PYTHONHASHSEED: hash() of a str, and with it the iteration order of a set
\* of str, is fixed within one process run and differs between runs.
MaxSeed == 4
\* The pure text functions are explored on every text of at most MaxLen
\* characters over TextAlphabet and every limit in 0..MaxLimit.
MaxLen == 7
MaxLimit == 7
\* _generate_seo_tags is explored on every topic of at most MaxWords words
\* made by AddWord.
MaxWords == 6
\* _extract_headings is explored on every document of at most MaxLines lines
\* of DocLines.
MaxLines == 4
\* Topic normalization is explored on every topic of at most MaxTopic
\* characters made by AddPiece.
MaxTopic == 30

VARIABLES
    hashseed,    \* this process run's hash seed
    agent,       \* the ContentCreationAgent: the three tables __init__ builds
    pc,          \* where generate_content is: "idle", "validate", "generate", "returned", "raised"
    request,     \* the ContentRequest of the call in progress
    i,           \* the loop variable of generate_content's for i in range(3)
    variations,  \* the list of ContentOutput built so far
    analysis,    \* the analysis text, once generated
    error,       \* the message of the exception generate_content raised
    invoked,     \* history: the <<builder key, variation_index>> pairs called, in order
    previous,    \* history: the outcome of the call before this one, None before any
    text,        \* the text handed to _truncate_to_limit
    char_limit,  \* its limit
    once,        \* _truncate_to_limit(text, char_limit)
    twice,       \* _truncate_to_limit(once, char_limit)
    tpc,         \* where the truncation run is: "build", "cut", "recut", "done"
    input,       \* the str handed to a helper called on its own
    output,      \* what the helper returned
    fpc,         \* where that run is: "build", "done"
    calls,       \* the frames of the generate_content calls in progress on one shared agent
    ui           \* the command-line front-end: where it is, what was typed, printed and written

vars == <<hashseed, agent, pc, request, i, variations, analysis, error, invoked, previous,
          text, char_limit, once, twice, tpc, input, output, fpc, calls, ui>>
gen_vars == <<hashseed, agent, pc, request, i, variations, analysis, error, invoked, previous>>
trunc_vars == <<text, char_limit, once, twice, tpc>>
fn_vars == <<input, output, fpc>>
call_vars == <<calls>>
ui_vars == <<ui>>

\* An Optional field holds None or one value
None == << >>
Some(v) == <<v>>
\* `opt or default` for an Optional[int] and an Optional[str]: None, 0 and ""
\* are falsy
\* An empty override taken as an override
or_str_not_none(opt, default) == IF opt = None THEN default ELSE opt[1]

\* A word count of 0 taken as a word count
or_int_not_none(opt, default) == IF opt = None THEN default ELSE opt[1]

or_int(opt, default) == IF opt = None \/ opt[1] = 0 THEN default ELSE opt[1]
or_str(opt, default) == IF opt = None \/ opt[1] = "" THEN default ELSE opt[1]

(* --------------------------- str operations --------------------------- *)

Min(S) == CHOOSE x \in S : \A y \in S : x <= y
Max(S) == CHOOSE x \in S : \A y \in S : x >= y

\* The characters str.split() and the regex class \s treat as whitespace,
\* among those that occur in the model's texts.
Whitespace == {" ", "\n", "\t", "\r"}

CharAt(s, k) == SubSeq(s, k, k)

\* s[n:] for n >= 0
Drop(s, n) == SubSeq(s, n + 1, Len(s))

\* s[:n]: the first n items, or all but the last -n when n is negative
Take(s, n) ==
    IF n >= 0 THEN SubSeq(s, 1, IF n < Len(s) THEN n ELSE Len(s))
    ELSE SubSeq(s, 1, IF Len(s) + n > 0 THEN Len(s) + n ELSE 0)

\* str(n) for an integer
str(n) == IF n < 0 THEN "-" \o ToString(-n) ELSE ToString(n)

\* str(n - 0.5) for an integer n: the float n - 0.5 printed by an f-string
str_minus_half(n) ==
    IF n >= 1 THEN ToString(n - 1) \o ".5" ELSE "-" \o ToString(-n) \o ".5"

\* f"{num/den:.0f}": the quotient rounded to the nearest integer, ties to even
format_0f(num, den) ==
    LET q == num \div den
        r == num % den
    IN  IF 2 * r < den THEN str(q)
        ELSE IF 2 * r > den THEN str(q + 1)
        ELSE IF q % 2 = 0 THEN str(q) ELSE str(q + 1)

\* s.rfind(c): the 0-based index of the last c in s, -1 when there is none
str_rfind(s, c) ==
    LET at == {k \in 1..Len(s) : CharAt(s, k) = c}
    IN  IF at = {} THEN -1 ELSE Max(at) - 1

\* s.replace(old, new): every non-overlapping occurrence of old, left to right
RECURSIVE str_replace(_, _, _)
str_replace(s, old, new) ==
    LET at == {k \in 1..(Len(s) - Len(old) + 1) : SubSeq(s, k, k + Len(old) - 1) = old}
    IN  IF at = {} THEN s
        ELSE SubSeq(s, 1, Min(at) - 1) \o new
                 \o str_replace(Drop(s, Min(at) + Len(old) - 1), old, new)

UpperCase == "ABCDEFGHIJKLMNOPQRSTUVWXYZ"
LowerCase == "abcdefghijklmnopqrstuvwxyz"
IndexIn(alphabet, c) ==
    LET at == {k \in 1..Len(alphabet) : CharAt(alphabet, k) = c}
    IN  IF at = {} THEN 0 ELSE Min(at)
lower_char(c) ==
    IF IndexIn(UpperCase, c) > 0 THEN CharAt(LowerCase, IndexIn(UpperCase, c)) ELSE c
upper_char(c) ==
    IF IndexIn(LowerCase, c) > 0 THEN CharAt(UpperCase, IndexIn(LowerCase, c)) ELSE c
IsCased(c) == IndexIn(UpperCase, c) > 0 \/ IndexIn(LowerCase, c) > 0

\* s.lower(): every character lower-cased (the two halves, then joined)
RECURSIVE str_lower(_)
str_lower(s) ==
    IF Len(s) = 0 THEN ""
    ELSE IF Len(s) = 1 THEN lower_char(s)
    ELSE str_lower(SubSeq(s, 1, Len(s) \div 2)) \o str_lower(Drop(s, Len(s) \div 2))

\* s.title(): a cased character is upper-cased after an uncased one (or at the
\* start) and lower-cased after a cased one
RECURSIVE title_from(_, _)
title_from(s, after_cased) ==
    IF s = "" THEN ""
    ELSE LET c == CharAt(s, 1)
         IN  (IF after_cased THEN lower_char(c) ELSE upper_char(c))
                 \o title_from(Drop(s, 1), IsCased(c))
str_title(s) == title_from(s, FALSE)

\* s.split(): the maximal runs of non-whitespace, in order (the words on
\* either side of the whitespace nearest the middle)
RECURSIVE str_split(_)
str_split(s) ==
    LET ws == {k \in 1..Len(s) : CharAt(s, k) \in Whitespace}
        mid == (Len(s) + 1) \div 2
        cut == IF \E k \in ws : k >= mid THEN Min({k \in ws : k >= mid}) ELSE Max(ws)
    IN  IF Len(s) = 0 THEN << >>
        ELSE IF ws = {} THEN <<s>>
        ELSE str_split(SubSeq(s, 1, cut - 1)) \o str_split(Drop(s, cut))

\* sep.join(items)
RECURSIVE str_join(_, _)
str_join(items, sep) ==
    IF Len(items) = 0 THEN ""
    ELSE IF Len(items) = 1 THEN Head(SubSeq(items, 1, 1))
    ELSE Head(SubSeq(items, 1, 1)) \o sep \o str_join(Drop(items, 1), sep)

\* The items of seq without repetitions, each at its first place
Dedupe(seq) ==
    LET keep == {k \in 1..Len(seq) : \A j \in 1..(k - 1) : seq[j] # seq[k]}
        rank == [k \in keep |-> Cardinality({m \in keep : m <= k})]
    IN  [j \in 1..Cardinality(keep) |-> seq[CHOOSE k \in keep : rank[k] = j]]

Rotate(seq, k) ==
    IF seq = << >> THEN seq
    ELSE [j \in 1..Len(seq) |-> seq[((j - 1 + k) % Len(seq)) + 1]]

\* A hash salted anew by every call
hash_per_call(s) == hashseed + Len(s) + Len(previous)

\* hash(s) for a str: stable within the process run, arbitrary across runs
hash(s) == hashseed + Len(s)

\* list(set(items)): the distinct items in the set's iteration order, which is
\* a function of the items' hashes: one of the rotations of the distinct items,
\* fixed by the process run's seed
list_set(items) == Rotate(Dedupe(items), hashseed)

(* ------------------------ ContentCreationAgent ------------------------ *)

\* A registry that lost its last entry
content_types_without_email ==
    {"blog", "social_media", "newsletter", "video_script"}

\* self.content_types: the keys
content_types ==
    {"blog", "social_media", "newsletter", "video_script", "email_campaign"}

tone_templates ==
    [professional |->
        [style |-> "Clear, authoritative, and industry-specific language",
         emphasis |-> "Expertise, credibility, and measurable results",
         examples |-> "Industry statistics, case studies, technical data"],
     conversational |->
        [style |-> "Friendly, accessible language with personal anecdotes",
         emphasis |-> "Relatability, story-telling, and personal experiences",
         examples |-> "Personal stories, relatable scenarios, everyday situations"],
     persuasive |->
        [style |-> "Compelling arguments with emotional and logical appeals",
         emphasis |-> "Benefits, urgency, and transformation",
         examples |-> "Before/after scenarios, success stories, compelling statistics"],
     informative |->
        [style |-> "Educational, clear explanations with structured information",
         emphasis |-> "Learning, understanding, and comprehensive coverage",
         examples |-> "Step-by-step guides, detailed explanations, comprehensive lists"],
     humorous |->
        [style |-> "Witty, light-hearted language with appropriate humor",
         emphasis |-> "Entertainment, engagement, and memorable content",
         examples |-> "Funny analogies, wordplay, entertaining scenarios"]]

audience_profiles ==
    [startup_founders |->
        [pain_points |-> <<"Rapid growth", "Market validation", "Resource constraints">>,
         interests |-> <<"Growth strategies", "Funding", "Technology adoption">>,
         language |-> "Business-focused, results-oriented"],
     tech_leads |->
        [pain_points |-> <<"Team management", "Technical debt", "Scalability">>,
         interests |-> <<"Best practices", "Team productivity", "Architecture">>,
         language |-> "Technical but accessible"],
     marketing_professionals |->
        [pain_points |-> <<"Lead generation", "ROI measurement", "Brand awareness">>,
         interests |-> <<"Marketing trends", "Campaign optimization", "Customer acquisition">>,
         language |-> "Strategy-focused, metrics-driven"],
     general_audience |->
        [pain_points |-> <<"Learning new concepts", "Practical application">>,
         interests |-> <<"Accessible information", "Clear benefits">>,
         language |-> "Simple, jargon-free"]]

\* ContentCreationAgent(): the agent __init__ leaves
ContentCreationAgent ==
    [content_types |-> content_types, tone_templates |-> tone_templates,
     audience_profiles |-> audience_profiles]

\* A fallback to the first profile instead of general_audience
audience_profile_first(key) ==
    IF key \in DOMAIN audience_profiles THEN audience_profiles[key]
    ELSE audience_profiles["startup_founders"]

\* self.audience_profiles.get(key, self.audience_profiles['general_audience'])
audience_profile(key) ==
    IF key \in DOMAIN agent.audience_profiles THEN agent.audience_profiles[key]
    ELSE agent.audience_profiles["general_audience"]

\* topic.replace('Benefits of ', '').replace(' for', '')
topic_clean(topic) == str_replace(str_replace(topic, "Benefits of ", ""), " for", "")

(* ------------------------------ helpers ------------------------------- *)

\* The cut taken one character late
_truncate_to_limit_late(txt, limit) ==
    IF Len(txt) <= limit THEN txt
    ELSE LET truncated == Take(txt, limit + 1)
             last_space == str_rfind(truncated, " ")
         IN  (IF 10 * last_space > 8 * limit THEN Take(truncated, last_space)
              ELSE truncated) \o "..."

\* The space tested with >= instead of >
_truncate_to_limit_ge(txt, limit) ==
    IF Len(txt) <= limit THEN txt
    ELSE LET truncated == Take(txt, limit)
             last_space == str_rfind(truncated, " ")
         IN  (IF 10 * last_space >= 8 * limit THEN Take(truncated, last_space)
              ELSE truncated) \o "..."

\* last_space > char_limit * 0.8 compares an int with a float; for every
\* limit up to 3000 and every index below it that is 10 * last_space >
\* 8 * char_limit.
_truncate_to_limit(txt, limit) ==
    IF Len(txt) <= limit THEN txt
    ELSE LET truncated == Take(txt, limit)
             last_space == str_rfind(truncated, " ")
         IN  (IF 10 * last_space > 8 * limit THEN Take(truncated, last_space)
              ELSE truncated) \o "..."

\* re.findall(r'^#+\s+(.+)$', content, re.MULTILINE): at a line start, one or
\* more '#', then whitespace (which may run over line breaks), then the rest
\* of the line, which is not empty; the scan goes on after the match.
RECURSIVE RunEnd(_, _, _)
\* The last position of the run of characters of class that starts at p
\* (p - 1 when the character at p is not of the class)
RunEnd(content, p, class) ==
    IF p <= Len(content) /\ CharAt(content, p) \in class
    THEN RunEnd(content, p + 1, class) ELSE p - 1
\* The last position of the line that holds p
LineEnd(content, p) ==
    LET nl == {k \in p..Len(content) : CharAt(content, k) = "\n"}
    IN  IF nl = {} THEN Len(content) ELSE Min(nl) - 1
\* Where the group (.+) starts for a match that begins at p, 0 when no match
\* begins there: \s+ is greedy and gives characters back until one that is
\* not a line break follows.
HeadingStart(content, p) ==
    LET h == RunEnd(content, p, {"#"})
        w == RunEnd(content, h + 1, Whitespace)
        cand == {k \in (h + 2)..(w + 1) :
                    k <= Len(content) /\ CharAt(content, k) # "\n"}
    IN  IF h < p \/ w < h + 1 \/ cand = {} THEN 0 ELSE Max(cand)
RECURSIVE headings_from(_, _, _)
headings_from(content, starts, p) ==
    LET left == {k \in starts : k >= p}
    IN  IF left = {} THEN << >>
        ELSE LET g == HeadingStart(content, Min(left))
                 e == LineEnd(content, g)
             IN  <<SubSeq(content, g, e)>> \o headings_from(content, starts, e + 1)
_extract_headings(content) ==
    LET starts == {k \in 1..Len(content) :
                      /\ CharAt(content, k) = "#"
                      /\ k = 1 \/ CharAt(content, k - 1) = "\n"
                      /\ HeadingStart(content, k) > 0}
    IN  headings_from(content, starts, 1)

\* Words counted as the spaces plus one
_count_words_by_spaces(txt) ==
    Cardinality({k \in 1..Len(txt) : CharAt(txt, k) = " "}) + 1

\* len(text.split()): the number of maximal runs of non-whitespace
_count_words(txt) ==
    Cardinality({k \in 1..Len(txt) :
                    /\ CharAt(txt, k) \notin Whitespace
                    /\ k = 1 \/ CharAt(txt, k - 1) \in Whitespace})

\* Every word of the topic kept
_generate_seo_tags_unfiltered(topic) ==
    LET topic_words == str_split(str_lower(topic))
        base_tags == <<"technology", "business", "strategy", "innovation", "growth">>
    IN  Take(list_set(base_tags \o topic_words), 10)

\* The list cut to 5 tags
_generate_seo_tags_five(topic) ==
    LET topic_words == str_split(str_lower(topic))
        base_tags == <<"technology", "business", "strategy", "innovation", "growth">>
        specific_tags ==
            SelectSeq(topic_words,
                      LAMBDA word : word \notin {"of", "for", "the", "and", "a", "an"})
    IN  Take(list_set(base_tags \o specific_tags), 5)

_generate_seo_tags(topic) ==
    LET topic_words == str_split(str_lower(topic))
        base_tags == <<"technology", "business", "strategy", "innovation", "growth">>
        specific_tags ==
            SelectSeq(topic_words,
                      LAMBDA word : word \notin {"of", "for", "the", "and", "a", "an"})
    IN  Take(list_set(base_tags \o specific_tags), 10)

_generate_social_tags(topic) ==
    LET tags == _generate_seo_tags(topic)
        first == Take(tags, 5)
        hashtags == [k \in 1..Len(first) |-> "#" \o first[k]]
    IN  str_join(hashtags, " ")

_generate_default_cta(req) ==
    LET topic == req.topic
        ctas == <<"Ready to implement "
                  \o topic_clean(topic)
                  \o " in your organization? Start with our free assessment tool.",
                  "Want to learn more about "
                  \o topic_clean(topic)
                  \o "? Download our comprehensive guide today.",
                  "Start your "
                  \o topic_clean(topic)
                  \o " journey today. Get personalized recommendations for your team.",
                  "Transform your business with "
                  \o topic_clean(topic)
                  \o ". Book a consultation to get started.">>
    IN  ctas[(hash(req.topic) % Len(ctas)) + 1]

_generate_social_cta(topic, platform) ==
    IF platform = "linkedin"
    THEN "Looking to implement "
         \o topic_clean(topic)
         \o "? Let's connect and discuss how we can help your organization succeed."
    ELSE "What's your experience with "
         \o topic_clean(topic)
         \o "? Share your thoughts in the comments! ~~~~"

_generate_communication_style(tone) ==
    LET styles == [professional |-> "authoritative, credible, data-driven",
                   conversational |-> "friendly, accessible, personal",
                   persuasive |-> "compelling, benefit-focused, action-oriented",
                   informative |-> "educational, clear, comprehensive",
                   humorous |-> "entertaining, engaging, memorable"]
    IN  IF tone \in DOMAIN styles THEN styles[tone] ELSE "professional"

_get_default_word_count(content_type) ==
    LET counts == [blog |-> 800, social_media |-> 200, newsletter |-> 600,
                   video_script |-> 1200, email_campaign |-> 400]
    IN  IF content_type \in DOMAIN counts THEN counts[content_type] ELSE 500

(* --------------------------- result of a call -------------------------- *)

\* A builder returns a ContentOutput or raises; readability_score keeps its
\* default 0.0.
ContentOutput(title_, content, headings, call_to_action, tags, word_count) ==
    [title |-> title_, content |-> content, headings |-> headings,
     call_to_action |-> call_to_action, tags |-> tags, word_count |-> word_count,
     readability_score |-> 0]
Return(value) == [raised |-> FALSE, value |-> value]
Raise(message) == [raised |-> TRUE, message |-> message]
\* str(KeyError(key)) is repr(key)
KeyError(key) == Raise("'" \o key \o "'")

(* ------------------------------- article ------------------------------ *)

_generate_blog_introduction(topic, audience, tone) ==
    LET pain_points == str_join(Take(audience.pain_points, 2), ", ")
        intro_templates ==
            <<"In today's fast-paced business environment, "
              \o topic
              \o " has emerged as a critical factor for success. Whether you're dealing with "
              \o pain_points
              \o " or seeking sustainable growth, understanding "
              \o topic
              \o " can be the game-changer your organization needs.",
              "You've probably heard about "
              \o topic
              \o ", but do you truly understand its transformative potential? For "
              \o audience.interests[1]
              \o " professionals, this isn't just another trend~~~it's a fundamental shift that can revolutionize "
              \o "how you operate.",
              "The numbers don't lie: companies that successfully implement "
              \o topic
              \o " see remarkable improvements across multiple metrics. But here's what most people miss~~~it's "
              \o "not just about the technology or methodology, it's about the mindset shift that makes it "
              \o "all possible.">>
    IN  intro_templates[(hash(topic) % Len(intro_templates)) + 1]

_generate_problem_section(topic, audience) ==
    "Traditional approaches to "
    \o topic_clean(topic)
    \o " often fall short because they fail to address fundamental challenges:\n"
    \o "\n"
    \o "- **"
    \o audience.pain_points[1]
    \o "**: Most organizations struggle with this because they lack systematic approaches\n"
    \o "- **Scalability Issues**: Rapid growth can quickly overwhelm unprepared teams\n"
    \o "- **Resource Constraints**: Limited budgets and personnel create bottlenecks\n"
    \o "\n"
    \o "These challenges aren't insurmountable, but they require a strategic, modern approach."

_generate_solution_section(topic, audience, tone) ==
    "The solution lies in adopting a comprehensive "
    \o topic_clean(topic)
    \o " strategy that addresses both immediate needs and long-term objectives.\n"
    \o "\n"
    \o "**Core Principles:**\n"
    \o "\n"
    \o "1. **Strategic Integration**: Seamlessly blend "
    \o topic_clean(topic)
    \o " into existing workflows\n"
    \o "2. **Team Alignment**: Ensure all stakeholders understand the value and implementation process\n"
    \o "3. **Continuous Improvement**: Build mechanisms for ongoing optimization and adaptation\n"
    \o "\n"
    \o "**Implementation Framework:**\n"
    \o "\n"
    \o "- Start with pilot projects to demonstrate quick wins\n"
    \o "- Scale proven methodologies across teams and departments\n"
    \o "- Measure progress using established KPIs and metrics\n"
    \o "- Iterate and refine based on real-world feedback\n"
    \o "\n"
    \o tone.examples
    \o ": Companies implementing this approach typically see 30-40% improvements in key performance "
    \o "indicators within the first quarter."

_generate_benefits_section(topic, audience, tone) ==
    "**Immediate Benefits:**\n"
    \o "\n"
    \o "- **Improved Efficiency**: Streamlined processes reduce time-to-market by 25-40%\n"
    \o "- **Enhanced Quality**: Systematic approaches result in fewer errors and higher customer "
    \o "satisfaction\n"
    \o "- **Cost Reduction**: Automation and optimization typically deliver 15-30% cost savings\n"
    \o "\n"
    \o "**Long-term Advantages:**\n"
    \o "\n"
    \o "- **Competitive Edge**: Organizations that master "
    \o topic_clean(topic)
    \o " consistently outperform competitors\n"
    \o "- **Team Satisfaction**: Clear processes and continuous improvement boost employee engagement\n"
    \o "- **Innovation Acceleration**: Structured frameworks enable faster experimentation and adaptation\n"
    \o "\n"
    \o "**ROI Considerations:**\n"
    \o "\n"
    \o tone.examples
    \o " show that the average return on investment for "
    \o topic_clean(topic)
    \o " initiatives ranges from 200-400% within the first 18 months, making it one of the most "
    \o "valuable strategic investments available."

_generate_implementation_section(topic, audience) ==
    "**Getting Started:**\n"
    \o "\n"
    \o "1. **Assessment Phase** (Weeks 1-2)\n"
    \o "   - Conduct comprehensive analysis of current state\n"
    \o "   - Identify key stakeholders and decision makers\n"
    \o "   - Define success metrics and timeline\n"
    \o "\n"
    \o "2. **Planning Phase** (Weeks 3-4)\n"
    \o "   - Develop detailed implementation roadmap\n"
    \o "   - Allocate resources and assign responsibilities\n"
    \o "   - Create communication and training plans\n"
    \o "\n"
    \o "3. **Execution Phase** (Months 2-6)\n"
    \o "   - Implement pilot programs with select teams\n"
    \o "   - Monitor progress and adjust strategies\n"
    \o "   - Scale successful approaches across organization\n"
    \o "\n"
    \o "**Common Pitfalls to Avoid:**\n"
    \o "\n"
    \o "- **Scope Creep**: Keep initial implementation focused on core objectives\n"
    \o "- **Insufficient Training**: Invest in comprehensive team education\n"
    \o "- **Inadequate Metrics**: Establish clear measurement systems from the start\n"
    \o "- **Cultural Resistance**: Address change management proactively\n"
    \o "\n"
    \o "**Success Metrics:**\n"
    \o "\n"
    \o "- Process efficiency improvements\n"
    \o "- Cost reduction percentages  \n"
    \o "- Team satisfaction scores\n"
    \o "- Customer satisfaction ratings"

_generate_examples_section(topic, tone) ==
    "**Case Study: Tech Startup Success Story**\n"
    \o "\n"
    \o "A mid-stage startup implemented "
    \o topic_clean(topic)
    \o " as part of their growth strategy. Within six months, they achieved:\n"
    \o "\n"
    \o "- 45% reduction in deployment time\n"
    \o "- 60% fewer production incidents\n"
    \o "- 35% improvement in customer satisfaction scores\n"
    \o "\n"
    \o "**Industry Example: Enterprise Adoption**\n"
    \o "\n"
    \o "A Fortune 500 company rolled out "
    \o topic_clean(topic)
    \o " across 200+ teams globally. Key results included:\n"
    \o "\n"
    \o "- $2.3M in annual cost savings\n"
    \o "- 50% faster feature delivery\n"
    \o "- 80% reduction in manual processes\n"
    \o "\n"
    \o tone.examples
    \o " consistently demonstrate that companies embracing "
    \o topic_clean(topic)
    \o " outperform their peers across virtually every measurable dimension."

_generate_blog_conclusion(topic, audience, tone) ==
    "The evidence is clear: "
    \o topic_clean(topic)
    \o " represents a fundamental shift in how successful organizations operate. Rather than being "
    \o "an optional enhancement, it's becoming a competitive necessity.\n"
    \o "\n"
    \o "**Key Takeaways:**\n"
    \o "\n"
    \o "- Strategic implementation delivers measurable ROI within months, not years\n"
    \o "- Success depends on cultural adoption, not just technical implementation\n"
    \o "- Continuous improvement and adaptation are essential for long-term success\n"
    \o "\n"
    \o "The question isn't whether to embrace "
    \o topic_clean(topic)
    \o ", but how quickly you can get started. Organizations that delay implementation risk falling "
    \o "behind competitors who are already realizing the benefits.\n"
    \o "\n"
    \o "**Ready to Transform Your Organization?**\n"
    \o "\n"
    \o "The implementation journey begins with a single step~~~assessment of your current state "
    \o "and identification of immediate opportunities for improvement. With the right strategy and "
    \o "commitment, "
    \o topic_clean(topic)
    \o " can transform your organization from reactive to proactive, from inefficient to optimized, "
    \o "and from good to great."

\* The tone looked up with a default, as the audience is
_build_blog_structure_default_tone(req, title_, word_count) ==
    LET audience == audience_profile(req.target_audience)
        tone == IF req.tone \in DOMAIN tone_templates THEN tone_templates[req.tone]
                ELSE tone_templates["professional"]
    IN  Return(_generate_blog_introduction(req.topic, audience, tone))

\* Raises KeyError when request.tone is no key of tone_templates (line 172).
_build_blog_structure(req, title_, word_count) ==
    IF req.tone \notin DOMAIN agent.tone_templates THEN KeyError(req.tone)
    ELSE
    LET audience == audience_profile(req.target_audience)
        tone == agent.tone_templates[req.tone]
        intro == _generate_blog_introduction(req.topic, audience, tone)
        sections ==
            << <<"The Problem", _generate_problem_section(req.topic, audience)>>,
               <<"The Solution", _generate_solution_section(req.topic, audience, tone)>>,
               <<"Key Benefits", _generate_benefits_section(req.topic, audience, tone)>>,
               <<"Implementation", _generate_implementation_section(req.topic, audience)>>,
               <<"Real-World Examples", _generate_examples_section(req.topic, tone)>> >>
        conclusion == _generate_blog_conclusion(req.topic, audience, tone)
        section_parts(k) == <<"## " \o sections[k][1], sections[k][2], "">>
        content_parts ==
            <<intro>> \o section_parts(1) \o section_parts(2) \o section_parts(3)
                \o section_parts(4) \o section_parts(5)
                \o <<"## Conclusion", conclusion>>
    IN  Return(str_join(content_parts, "\n"))

\* title_options of _generate_blog_content
blog_title_options(req) ==
        <<"The Ultimate Guide to "
          \o req.topic,
          "Why "
          \o req.topic
          \o " Matters More Than You Think",
          "Transforming Your Business with "
          \o req.topic
          \o ": A Complete Guide",
          "The Hidden Benefits of "
          \o req.topic
          \o " You Need to Know",
          "Mastering "
          \o req.topic
          \o ": From Beginner to Expert">>

\* The article that reports the requested word count as its own
_generate_blog_content_reporting_requested(req, variation_index) ==
    LET word_count == or_int(req.word_count, _get_default_word_count("blog"))
        title_options == blog_title_options(req)
        title_ == title_options[(variation_index % Len(title_options)) + 1]
        built == _build_blog_structure(req, title_, word_count)
    IN  IF built.raised THEN built
        ELSE LET content == built.value
                 headings == _extract_headings(content)
                 cta == or_str(req.call_to_action, _generate_default_cta(req))
                 tags == IF req.include_seo THEN _generate_seo_tags(req.topic) ELSE << >>
             IN  Return(ContentOutput(title_, content, headings, cta, tags, word_count))

_generate_blog_content(req, variation_index) ==
    LET word_count == or_int(req.word_count, _get_default_word_count("blog"))
        title_options == blog_title_options(req)
        title_ == title_options[(variation_index % Len(title_options)) + 1]
        built == _build_blog_structure(req, title_, word_count)
    IN  IF built.raised THEN built
        ELSE LET content == built.value
                 headings == _extract_headings(content)
                 cta == or_str(req.call_to_action, _generate_default_cta(req))
                 tags == IF req.include_seo THEN _generate_seo_tags(req.topic) ELSE << >>
             IN  Return(ContentOutput(title_, content, headings, cta, tags,
                                      _count_words(content)))

(* ------------------------------ short post ---------------------------- *)

_generate_question_post(topic, audience, limit) ==
    LET questions ==
            <<"What's the biggest challenge you face with "
              \o topic_clean(topic)
              \o "? ~~~~",
              "Have you tried implementing "
              \o topic_clean(topic)
              \o " in your organization? What worked? What didn't?",
              "If you could improve one thing about "
              \o topic_clean(topic)
              \o ", what would it be?",
              "What advice would you give someone starting with "
              \o topic_clean(topic)
              \o "?">>
        base_question == questions[(hash(topic) % Len(questions)) + 1]
        context == "\n"
                   \o "\n"
                   \o "~~~~ Share your thoughts below! Learning from each other's experiences helps us all grow."
        hashtags == _generate_social_tags(topic)
        full_post == base_question \o context \o "\n\n" \o hashtags
    IN  _truncate_to_limit(full_post, limit)

_generate_value_post(topic, audience, limit) ==
    LET value_posts ==
            <<"~~~~ "
              \o topic_clean(topic)
              \o " Tip: Most organizations overlook this key principle...",
              "~~~~ Quick "
              \o topic_clean(topic)
              \o " insight: The difference between success and failure often comes down to this one thing:",
              "~~~ "
              \o topic_clean(topic)
              \o " Fact: Companies that do this correctly see 3x better results than those who don't",
              "~~~~ "
              \o topic_clean(topic)
              \o " Strategy: Stop focusing on tools, start focusing on this instead">>
        base_content == value_posts[(hash(topic) % Len(value_posts)) + 1]
        explanation == "\n"
                       \o "\n"
                       \o "Proper implementation requires understanding both the technical AND human elements. Many "
                       \o "teams focus solely on the mechanics and miss the cultural transformation that drives success."
        hashtags == _generate_social_tags(topic)
        full_post == base_content \o explanation \o "\n\n" \o hashtags
    IN  _truncate_to_limit(full_post, limit)

_generate_story_post(topic, audience, limit) ==
    LET stories ==
            <<"When we first started implementing "
              \o topic_clean(topic)
              \o ", we made every mistake in the book ~~~~",
              "Two years ago, our team was struggling with "
              \o topic_clean(topic)
              \o ". Here's what changed everything...",
              "I used to think "
              \o topic_clean(topic)
              \o " was just another business buzzword. Then I saw the results.",
              "The most surprising thing about "
              \o topic_clean(topic)
              \o "? It wasn't what I expected at all...">>
        base_story == stories[(hash(topic) % Len(stories)) + 1]
        lesson == "\n"
                  \o "\n"
                  \o "Lesson learned: Success comes from consistent application of proven principles, not flashy "
                  \o "tools or overnight transformations."
        hashtags == _generate_social_tags(topic)
        full_post == base_story \o lesson \o "\n\n" \o hashtags
    IN  _truncate_to_limit(full_post, limit)

\* An unknown platform given the largest budget
limit_of_largest(platform) ==
    LET limits == [twitter |-> 280, linkedin |-> 700, facebook |-> 500,
                   instagram |-> 2200, general |-> 300]
    IN  IF platform \in DOMAIN limits THEN limits[platform] ELSE limits["instagram"]

\* limits.get(platform, limits['general']) with platform = request.platform or 'general'
platform_of(req) == or_str(req.platform, "general")
limit_of(platform) ==
    LET limits == [twitter |-> 280, linkedin |-> 700, facebook |-> 500,
                   instagram |-> 2200, general |-> 300]
    IN  IF platform \in DOMAIN limits THEN limits[platform] ELSE limits["general"]

\* The first two branches swapped
social_post_swapped(req, variation_index) ==
    LET limit == limit_of(platform_of(req))
    IN  IF variation_index = 0
        THEN _generate_value_post(req.topic, req.target_audience, limit)
        ELSE IF variation_index = 1
        THEN _generate_question_post(req.topic, req.target_audience, limit)
        ELSE _generate_story_post(req.topic, req.target_audience, limit)

\* The post of variation_index: question (0), value (1), else story
social_post(req, variation_index) ==
    LET limit == limit_of(platform_of(req))
    IN  IF variation_index = 0
        THEN _generate_question_post(req.topic, req.target_audience, limit)
        ELSE IF variation_index = 1
        THEN _generate_value_post(req.topic, req.target_audience, limit)
        ELSE _generate_story_post(req.topic, req.target_audience, limit)

\* The second title used for the third branch as well
social_title_repeated(req, variation_index) ==
    IF variation_index = 0 THEN "Quick Tip: " \o req.topic
    ELSE req.topic \o " Explained"

social_title(req, variation_index) ==
    IF variation_index = 0 THEN "Quick Tip: "
                                \o req.topic
        ELSE IF variation_index = 1 THEN req.topic
                                         \o " Explained"
        ELSE "My Experience with "
             \o req.topic

\* tags is the hashtag string of _generate_social_tags, not a list
_generate_social_content(req, variation_index) ==
    LET platform == platform_of(req)
        content == social_post(req, variation_index)
        cta == _generate_social_cta(req.topic, platform)
        tags == _generate_social_tags(req.topic)
    IN  Return(ContentOutput(social_title(req, variation_index), content, << >>, cta,
                             tags, Len(str_split(content))))

(* -------------------------------- digest ------------------------------ *)

_generate_newsletter_intro(topic, audience) ==
    "In this week's newsletter, we're diving deep into "
    \o topic_clean(topic)
    \o " and its impact on modern business. Whether you're just getting started or looking to optimize "
    \o "your current approach, this edition has something for everyone."

_generate_newsletter_main(topic, audience, tone) ==
    "**Understanding "
    \o topic_clean(topic)
    \o "**\n"
    \o "\n"
    \o "Recent industry data shows that organizations embracing "
    \o topic_clean(topic)
    \o " principles see significant improvements across multiple metrics:\n"
    \o "\n"
    \o "~~~ 35% faster project completion times\n"
    \o "~~~ 40% reduction in manual errors  \n"
    \o "~~~ 60% improvement in team collaboration\n"
    \o "\n"
    \o "But here's what's interesting: successful implementation isn't just about following processes~~~it's "
    \o "about creating a culture of continuous improvement.\n"
    \o "\n"
    \o "**Key Implementation Strategies:**\n"
    \o "\n"
    \o "1. **Start Small**: Begin with pilot projects in select teams\n"
    \o "2. **Measure Everything**: Establish clear KPIs before implementation\n"
    \o "3. **Communicate Value**: Ensure all stakeholders understand the benefits\n"
    \o "4. **Iterate Quickly**: Use feedback loops to refine approaches\n"
    \o "\n"
    \o "The companies seeing the best results aren't those with the most sophisticated tools~~~they're "
    \o "those with the clearest understanding of what they're trying to achieve."

_generate_newsletter_featured(topic) ==
    "**Industry Spotlight**: This week, we're featuring how TechCorp successfully scaled "
    \o topic_clean(topic)
    \o " across 500+ employees in just 4 months. Their secret? Focusing on human elements before "
    \o "technical implementation.\n"
    \o "\n"
    \o "**Quick Question**: What's been your biggest challenge with "
    \o topic_clean(topic)
    \o " implementation? Reply to this email and we'll feature the best insights in next week's "
    \o "edition.\n"
    \o "\n"
    \o "**Resource Spotlight**: Check out our updated "
    \o topic_clean(topic)
    \o " toolkit with 15 proven templates and frameworks."

_generate_newsletter_conclusion(topic) ==
    "The future belongs to organizations that can adapt quickly and continuously improve. "
    \o topic_clean(topic)
    \o " provides the framework for exactly that kind of transformation.\n"
    \o "\n"
    \o "Whether you're just beginning your journey or looking to take your current implementation "
    \o "to the next level, focus on the fundamentals: clear strategy, proper communication, and "
    \o "consistent execution.\n"
    \o "\n"
    \o "What questions do you have about "
    \o topic_clean(topic)
    \o "? We'd love to hear from you~~~just reply to this email."

_generate_newsletter_ps(topic) ==
    "Don't forget: "
    \o topic_clean(topic)
    \o " is a marathon, not a sprint. Take time to celebrate small wins along the way! ~~~~"

\* title_templates of _generate_newsletter_content
newsletter_title_templates(req) ==
        <<"Weekly Insights: "
          \o req.topic,
          "The "
          \o req.topic
          \o " Newsletter",
          "Trending: "
          \o req.topic
          \o " Update",
          "Deep Dive: "
          \o req.topic>>

\* The content _generate_newsletter_content builds: no part of it reads
\* variation_index or the title
newsletter_content(req) ==
    LET intro_section == _generate_newsletter_intro(req.topic, req.target_audience)
        main_section == _generate_newsletter_main(req.topic, req.target_audience, req.tone)
        featured_section == _generate_newsletter_featured(req.topic)
        conclusion_section == _generate_newsletter_conclusion(req.topic)
    IN  "## Welcome to This Week's Issue\n"
        \o "\n"
        \o intro_section
        \o "\n"
        \o "\n"
        \o "## Featured Article: "
        \o req.topic
        \o "\n"
        \o "\n"
        \o main_section
        \o "\n"
        \o "\n"
        \o "## What's Trending\n"
        \o "\n"
        \o featured_section
        \o "\n"
        \o "\n"
        \o "## Closing Thoughts\n"
        \o "\n"
        \o conclusion_section
        \o "\n"
        \o "\n"
        \o "---\n"
        \o "P.S. "
        \o _generate_newsletter_ps(req.topic)
        \o "\n"

\* The call to action taken from the request, as the article builder does
_generate_newsletter_content_override(req, variation_index) ==
    LET title_templates == newsletter_title_templates(req)
        title_ == title_templates[(variation_index % Len(title_templates)) + 1]
        content == newsletter_content(req)
        cta == or_str(req.call_to_action,
                      "Subscribe to our weekly newsletter for more insights like this!")
    IN  Return(ContentOutput(title_, content, _extract_headings(content), cta,
                             _generate_seo_tags(req.topic), _count_words(content)))

_generate_newsletter_content(req, variation_index) ==
    LET word_count == or_int(req.word_count, 600)
        title_templates == newsletter_title_templates(req)
        title_ == title_templates[(variation_index % Len(title_templates)) + 1]
        content == newsletter_content(req)
        headings == _extract_headings(content)
        cta == "Subscribe to our weekly newsletter for more insights like this!"
    IN  Return(ContentOutput(title_, content, headings, cta,
                             _generate_seo_tags(req.topic), _count_words(content)))

(* -------------------------------- script ------------------------------ *)

_generate_video_hook(topic, audience) ==
    "What if I told you that "
    \o topic_clean(topic)
    \o " could transform your business in ways you never imagined? Today, I'm going to share the "
    \o "exact framework that's helped dozens of companies achieve remarkable results."

_generate_video_intro(topic) ==
    "Hi everyone! I'm excited to talk about "
    \o topic_clean(topic)
    \o " today because I've seen firsthand how it can completely change how organizations operate. "
    \o "In the next few minutes, I'll walk you through what "
    \o topic_clean(topic)
    \o " really means, why it matters, and most importantly, how you can implement it successfully."

_generate_video_main_points(topic, audience) ==
    "**Point 1: Understanding the Fundamentals**\n"
    \o topic_clean(topic)
    \o " isn't just about processes~~~it's about mindset. The most successful implementations start "
    \o "with understanding WHY before jumping into HOW.\n"
    \o "\n"
    \o "**Point 2: Common Implementation Challenges**  \n"
    \o "Most organizations struggle with three things: resistance to change, unclear objectives, "
    \o "and insufficient training. Here's how to avoid these pitfalls...\n"
    \o "\n"
    \o "[your_name] shares anecdotal evidence or real-world case study\n"
    \o "\n"
    \o "**Point 3: Building Sustainable Success**\n"
    \o "Sustainable "
    \o topic_clean(topic)
    \o " implementation requires ongoing commitment and continuous learning. It's not a one-time "
    \o "project~~~it's an ongoing journey."

_generate_video_demonstration(topic) ==
    "Let me show you exactly how this works in practice. [Insert demonstration of "
    \o topic_clean(topic)
    \o " principles in action] This real-world example shows the difference between theoretical "
    \o "knowledge and practical application."

_generate_video_conclusion(topic) ==
    topic_clean(topic)
    \o " isn't just another business trend~~~it's a fundamental shift in how successful organizations "
    \o "operate. The companies embracing these principles today are building sustainable competitive "
    \o "advantages that will serve them for years to come.\n"
    \o "\n"
    \o "Remember: Success comes from consistent application of proven principles, not perfection "
    \o "on day one."

_generate_video_cta(topic) ==
    "If you found this helpful, please like and subscribe for more content like this. And if "
    \o "you're ready to start your "
    \o topic_clean(topic)
    \o " journey, check out the link in the description for our complete starter kit. Thanks for "
    \o "watching!"

\* title_templates of _generate_video_script
video_title_templates(req) ==
        <<"How "
          \o req.topic
          \o " is Changing Everything",
          "The Complete Guide to "
          \o req.topic,
          req.topic
          \o ": What You Need to Know",
          "Why "
          \o req.topic
          \o " Matters More Than Ever">>

_generate_video_script(req, variation_index) ==
    LET word_count == or_int(req.word_count, 1200)
        duration_minutes == word_count \div 150
        title_templates == video_title_templates(req)
        title_ == title_templates[(variation_index % Len(title_templates)) + 1]
        hook == _generate_video_hook(req.topic, req.target_audience)
        intro == _generate_video_intro(req.topic)
        main_points == _generate_video_main_points(req.topic, req.target_audience)
        demonstration == _generate_video_demonstration(req.topic)
        conclusion == _generate_video_conclusion(req.topic)
        cta == _generate_video_cta(req.topic)
        content ==
            "# Video Script: "
            \o title_
            \o "\n"
            \o "**Duration: ~"
            \o str(duration_minutes)
            \o " minutes**\n"
            \o "**Target Audience: "
            \o str_title(str_replace(req.target_audience, "_", " "))
            \o "**\n"
            \o "\n"
            \o "## Hook (0-15 seconds)\n"
            \o hook
            \o "\n"
            \o "\n"
            \o "## Introduction (15-45 seconds)\n"
            \o intro
            \o "\n"
            \o "\n"
            \o "## Main Content (45 seconds - "
            \o str(duration_minutes - 1)
            \o " minutes)\n"
            \o main_points
            \o "\n"
            \o "\n"
            \o "## Demonstration/Example ("
            \o str(duration_minutes - 1)
            \o "-"
            \o str_minus_half(duration_minutes)
            \o " minutes)\n"
            \o demonstration
            \o "\n"
            \o "\n"
            \o "## Conclusion ("
            \o str_minus_half(duration_minutes)
            \o "-"
            \o str(duration_minutes)
            \o " minutes)\n"
            \o conclusion
            \o "\n"
            \o "\n"
            \o "## Call to Action (final 15 seconds)\n"
            \o cta
            \o "\n"
            \o "\n"
            \o "## Production Notes\n"
            \o "- Include engaging visuals and graphics\n"
            \o "- Add subtitles for accessibility\n"
            \o "- Use energetic, clear delivery\n"
            \o "- Maintain eye contact with camera\n"
            \o "- Include relevant background music at low volume\n"
        headings == _extract_headings(content)
    IN  Return(ContentOutput(title_, content, headings, cta,
                             _generate_seo_tags(req.topic), _count_words(content)))

(* ---------------------------- campaign email -------------------------- *)

_generate_email_subject(topic, campaign_type) ==
    LET subjects ==
            [welcome |->
                <<"Welcome to the "
                  \o topic_clean(topic)
                  \o " Success Hub! ~~~~",
                  "Getting Started with "
                  \o topic_clean(topic)
                  \o ": Your Journey Begins Now">>,
             educational |->
                <<"The Complete Guide to "
                  \o topic_clean(topic)
                  \o " (Free)",
                  "Understanding "
                  \o topic_clean(topic)
                  \o ": What Everyone Gets Wrong">>,
             promotional |->
                <<"Transform Your Business with "
                  \o topic_clean(topic),
                  topic_clean(topic)
                  \o ": The Secret Your Competitors Don't Know">>]
    IN  subjects[campaign_type][(hash(topic) % Len(subjects[campaign_type])) + 1]

_generate_email_body(topic, campaign_type, audience) ==
    IF campaign_type = "welcome"
    THEN "Hi there!\n"
         \o "\n"
         \o "Welcome to our community of "
         \o topic_clean(topic)
         \o " practitioners! ~~~~\n"
         \o "\n"
         \o "You've just joined thousands of professionals who are transforming their organizations through "
         \o "strategic "
         \o topic_clean(topic)
         \o " implementation.\n"
         \o "\n"
         \o "Here's what you can expect:\n"
         \o "\n"
         \o "~~~ Weekly insights and best practices\n"
         \o "~~~ Exclusive resources and templates  \n"
         \o "~~~ Direct access to our expert team\n"
         \o "~~~ Member-only webinars and workshops\n"
         \o "\n"
         \o "**Getting Started:**\n"
         \o "1. Complete your profile in our member portal\n"
         \o "2. Download your welcome package\n"
         \o "3. Join our community discussion forum\n"
         \o "\n"
         \o "Ready to dive in? Click below to access your starter resources!\n"
         \o "\n"
         \o "Best regards,\n"
         \o "The Team"
    ELSE IF campaign_type = "educational"
    THEN "Hi,\n"
         \o "\n"
         \o "I wanted to share something important about "
         \o topic_clean(topic)
         \o " that most people miss.\n"
         \o "\n"
         \o "After analyzing hundreds of implementations, I've noticed a pattern:\n"
         \o "\n"
         \o "The successful companies aren't those with the biggest budgets or the latest tools~~~they're "
         \o "the ones that understand the fundamental principles behind "
         \o topic_clean(topic)
         \o ".\n"
         \o "\n"
         \o "**What Sets Successful Organizations Apart:**\n"
         \o "\n"
         \o "1. They start with clear objectives, not trendy tools\n"
         \o "2. They focus on cultural adoption first, technical implementation second  \n"
         \o "3. They measure progress continuously and adjust quickly\n"
         \o "4. They invest in training and ongoing support\n"
         \o "\n"
         \o "**The 80/20 Rule of "
         \o topic_clean(topic)
         \o ":**\n"
         \o "80% of your results come from 20% of the core principles. Master these fundamentals, and "
         \o "everything else becomes much easier.\n"
         \o "\n"
         \o "Want to learn the specific 20% that delivers massive results? \n"
         \o "\n"
         \o "Download our comprehensive guide (completely free) and discover the framework that's helped "
         \o "organizations achieve remarkable transformation.\n"
         \o "\n"
         \o "To your success,\n"
         \o "[Your Name]"
    ELSE "Hi [Name],\n"
         \o "\n"
         \o "What if I told you that in 90 days, you could transform how your organization operates with "
         \o topic_clean(topic)
         \o "?\n"
         \o "\n"
         \o "I know that seems ambitious, but I've seen it happen dozens of times.\n"
         \o "\n"
         \o "The secret isn't working harder~~~it's working smarter with proven frameworks that thousands "
         \o "of successful organizations use.\n"
         \o "\n"
         \o "**Here's What You Get:**\n"
         \o "\n"
         \o "~~~ Our complete "
         \o topic_clean(topic)
         \o " implementation toolkit\n"
         \o "~~~ Access to our exclusive member community  \n"
         \o "~~~ Personalized consultation with our experts\n"
         \o "~~~ Ongoing support during your transformation\n"
         \o "\n"
         \o "**Special Offer (Limited Time):**\n"
         \o "Normally $997, but as a valued subscriber, you can access everything for just $297.\n"
         \o "\n"
         \o "This includes everything you need to get started immediately:\n"
         \o "- 25 proven templates and frameworks\n"
         \o "- Video training series (5+ hours of content)\n"
         \o "- Monthly group coaching calls\n"
         \o "- Direct email support\n"
         \o "\n"
         \o "**But this offer expires at midnight tonight.**\n"
         \o "\n"
         \o "That's because we believe in results, not indefinite deliberation. If you're ready to transform "
         \o "your organization with "
         \o topic_clean(topic)
         \o ", now's the time to act.\n"
         \o "\n"
         \o "Click below to secure your spot before it's too late.\n"
         \o "\n"
         \o "Best regards,\n"
         \o "[Your Name]\n"
         \o "\n"
         \o "P.S. Questions? Just reply to this email~~~I personally read every response."

_generate_email_footer(topic) ==
    "---\n"
    \o "**Need help implementing "
    \o topic_clean(topic)
    \o "?** \n"
    \o "Book a free consultation: [your-website.com/consultation]\n"
    \o "\n"
    \o "**Connect with us:**\n"
    \o "Blog | LinkedIn | Twitter | YouTube\n"
    \o "\n"
    \o "~~ 2024 Your Company Name. All rights reserved.\n"
    \o "You received this email because you subscribed to our newsletter.\n"
    \o "Unsubscribe | Update preferences"

_generate_email_cta(campaign_type) ==
    LET ctas == [welcome |-> "Access Your Starter Resources ~~~",
                 educational |-> "Download Free Guide ~~~",
                 promotional |-> "Claim Your Spot Now ~~~"]
    IN  IF campaign_type \in DOMAIN ctas THEN ctas[campaign_type] ELSE "Learn More ~~~"

\* The first sub-type listed twice
campaign_types_repeated == <<"welcome", "welcome", "promotional">>

\* campaign_types of _generate_email_campaign
campaign_types == <<"welcome", "educational", "promotional">>

\* title_templates of _generate_email_campaign: two titles per campaign type
email_title_templates(req) ==
        [welcome |->
            <<"Welcome to the "
              \o req.topic
              \o " Journey",
              "Getting Started with "
              \o req.topic>>,
         educational |->
            <<"Understanding "
              \o req.topic
              \o ": A Complete Guide",
              "The Science Behind "
              \o req.topic>>,
         promotional |->
            <<"Transform Your Business with "
              \o req.topic,
              req.topic
              \o ": The Game-Changer You Need">>]

_generate_email_campaign(req, variation_index) ==
    LET word_count == or_int(req.word_count, 400)
        campaign_type == campaign_types[(variation_index % Len(campaign_types)) + 1]
        title_templates == email_title_templates(req)
        title_options == title_templates[campaign_type]
        title_ == title_options[(variation_index % Len(title_options)) + 1]
        subject_line == _generate_email_subject(req.topic, campaign_type)
        body == _generate_email_body(req.topic, campaign_type, req.target_audience)
        footer == _generate_email_footer(req.topic)
        content ==
            "**Subject Line:** "
            \o subject_line
            \o "\n"
            \o "\n"
            \o "---\n"
            \o "\n"
            \o "**Email Body:**\n"
            \o "\n"
            \o body
            \o "\n"
            \o "\n"
            \o "---\n"
            \o "\n"
            \o "**Footer:**\n"
            \o footer
            \o "\n"
        headings == _extract_headings(content)
    IN  Return(ContentOutput(title_, content, headings, _generate_email_cta(campaign_type),
                             _generate_seo_tags(req.topic), _count_words(content)))

(* ------------------------------- analysis ----------------------------- *)

_generate_communication_strategy(req) ==
    LET audience == audience_profile(req.target_audience)
    IN  "\n"
        \o "**Communication Strategy for "
        \o str_title(str_replace(req.target_audience, "_", " "))
        \o ":**\n"
        \o "\n"
        \o "- **Primary interests**: "
        \o str_join(Take(audience.interests, 3), ", ")
        \o "\n"
        \o "- **Pain points**: "
        \o str_join(Take(audience.pain_points, 3), ", ")
        \o "\n"
        \o "- **Communication style**: "
        \o audience.language
        \o "\n"
        \o "- **Content tone**: "
        \o _generate_communication_style(req.tone)
        \o "\n"
        \o "- **Engagement approach**: Focus on practical applications and measurable outcomes\n"

\* ', '.join(variation.tags[:5]) if variation.tags else 'None': the first five
\* items of a list of tags, the first five characters of a hashtag string
key_tags(variation) ==
    IF Len(variation.tags) > 0 THEN str_join(Take(variation.tags, 5), ", ") ELSE "None"

variation_summary(variation, n) ==
    "\n"
    \o "### Variation "
    \o str(n)
    \o ": "
    \o variation.title
    \o "\n"
    \o "- **Word Count**: "
       \o str(variation.word_count)
       \o "\n"
    \o "- **Call to Action**: "
       \o variation.call_to_action
       \o "\n"
    \o "- **Key Tags**: "
       \o key_tags(variation)
       \o "\n"

_generate_content_analysis(req, vs) ==
    LET avg_num == vs[1].word_count + vs[2].word_count + vs[3].word_count
        avg_den == Len(vs)
        communication_strategy == _generate_communication_strategy(req)
    IN  "\n"
        \o "# Content Generation Analysis\n"
        \o "\n"
        \o "## Overview\n"
        \o "- **Topic**: "
        \o req.topic
        \o "\n"
        \o "- **Content Type**: "
        \o req.content_type
        \o "\n"
        \o "- **Target Audience**: "
        \o str_title(str_replace(req.target_audience, "_", " "))
        \o "\n"
        \o "- **Tone**: "
        \o str_title(req.tone)
        \o "\n"
        \o "- **Average Word Count**: "
        \o format_0f(avg_num, avg_den)
        \o " words\n"
        \o "\n"
        \o "## Content Variations Summary\n"
        \o variation_summary(vs[1], 1) \o variation_summary(vs[2], 2)
        \o variation_summary(vs[3], 3)
        \o communication_strategy
        \o "\n"
           \o "## Recommendations\n"
           \o "\n"
           \o "1. **Best for Professional Use**: Variation 2 typically works best for B2B audiences\n"
           \o "2. **Highest Engagement**: Variation 1 tends to generate more social shares\n"
           \o "3. **SEO Optimization**: Include targeted keywords naturally throughout content\n"
           \o "4. **Platform Adaptation**: Modify tone and length based on target platform\n"
           \o "\n"
           \o "## Next Steps\n"
           \o "\n"
           \o "1. Review all variations and select the best fit for your objectives\n"
           \o "2. Customize selected content with your brand voice and specific examples\n"
           \o "3. Add relevant images, links, and formatting for optimal presentation\n"
           \o "4. Schedule publication timing for maximum audience engagement\n"

(* --------------------------- generate_content -------------------------- *)

\* self.content_types[request.content_type](request, variation_index)
_generate_single_variation(req, variation_index) ==
    CASE req.content_type = "blog" -> _generate_blog_content(req, variation_index)
      [] req.content_type = "social_media" -> _generate_social_content(req, variation_index)
      [] req.content_type = "newsletter" -> _generate_newsletter_content(req, variation_index)
      [] req.content_type = "video_script" -> _generate_video_script(req, variation_index)
      [] req.content_type = "email_campaign" -> _generate_email_campaign(req, variation_index)

\* raise ValueError(f"Unsupported content type: {request.content_type}")
UnsupportedContentType(req) == "Unsupported content type: "
                               \o req.content_type

\* except Exception as e: raise Exception(f"Content generation failed: {str(e)}")
ContentGenerationFailed(e) == "Content generation failed: "
                              \o e

(* ------------------------------- requests ------------------------------ *)

ContentRequest(topic, content_type, target_audience, tone, word_count, platform) ==
    [topic |-> topic, content_type |-> content_type,
     target_audience |-> target_audience, tone |-> tone, word_count |-> word_count,
     platform |-> platform, call_to_action |-> None, include_examples |-> TRUE,
     include_seo |-> TRUE]

\* The requests of examples.py, one for each content type
Examples ==
    {ContentRequest("Benefits of DevOps for Startups", "blog", "startup_founders",
                    "professional", None, None),
     ContentRequest("AI for Small Business", "social_media", "general_audience",
                    "conversational", None, Some("linkedin")),
     ContentRequest("Digital Marketing Trends", "newsletter", "marketing_professionals",
                    "informative", None, None),
     ContentRequest("Remote Work Best Practices", "video_script", "general_audience",
                    "conversational", Some(900), None),
     ContentRequest("Product Launch Strategy", "email_campaign", "startup_founders",
                    "persuasive", None, None)}

\* A topic of more than five distinct words outside the base tags
ManyWordsTopic ==
    "The Art and Science of Building Resilient Cloud Platforms for Growing Engineering Teams"

\* A topic longer than the linkedin limit
LongTopic ==
    "Benefits of Platform Engineering for Regulated Industries and the Teams Who Must "
    \o "Balance Delivery Speed Against Audit Requirements While Migrating Legacy Workloads "
    \o "to Managed Cloud Services Under Tight Budgets With Limited Headcount and Strict "
    \o "Change Approval Boards That Meet Only Once Per Month and Expect Detailed Evidence "
    \o "of Testing Rollback Planning Capacity Forecasting Vendor Risk Assessment Data "
    \o "Residency Encryption Key Rotation Access Reviews Incident Response Exercises and "
    \o "Continuous Compliance Monitoring Across Every Environment From Development Through "
    \o "Staging to Production Including Disaster Recovery Sites and Third Party Integrations "
    \o "That Were Never Documented Properly by the Original Authors Years Ago"

Topics == {"Benefits of DevOps for Startups", "Remote Work", ManyWordsTopic}

Platforms ==
    {None, Some("twitter"), Some("linkedin"), Some("facebook"), Some("instagram"),
     Some("tiktok")}

FieldNames ==
    {"topic", "content_type", "target_audience", "tone", "word_count", "platform",
     "call_to_action", "include_examples", "include_seo"}

\* The values a field is drawn from: every key of the agent's tables and one
\* value that is none of them
FieldValues(f) ==
    CASE f = "topic" -> Topics
      [] f = "content_type" -> content_types \cup {"podcast"}
      [] f = "target_audience" -> DOMAIN audience_profiles \cup {"students"}
      [] f = "tone" -> DOMAIN tone_templates \cup {"sarcastic"}
      [] f = "word_count" -> {None, Some(0), Some(100), Some(900)}
      [] f = "platform" -> Platforms
      [] f = "call_to_action" -> {None, Some(""), Some("Book a demo today.")}
      [] f = "include_examples" -> BOOLEAN
      [] f = "include_seo" -> BOOLEAN

\* The requests that differ from req in at most one field
Vary(req) ==
    UNION {{[req EXCEPT ![f] = v] : v \in FieldValues(f)} : f \in FieldNames}

\* The short-post requests of every topic on every platform (the scenario
\* "Remote Work" on twitter among them)
ShortPosts ==
    {ContentRequest(t, "social_media", "general_audience", "conversational", None, p) :
        t \in Topics \cup {LongTopic}, p \in Platforms}

\* The requests generate_content is called with
Requests == UNION {Vary(r) : r \in Examples} \cup ShortPosts

NoRequest == ContentRequest("", "", "", "", None, None)

(* -------------------------------- actions ------------------------------ *)

\* The frame of a call that has not begun
NoCall ==
    [pc |-> "idle", request |-> NoRequest, i |-> 0, generator_func |-> None,
     variations |-> << >>, analysis |-> "", error |-> ""]

\* The callers that share one agent
Callers == {1, 2}

\* No front-end is running
NoSession ==
    [front |-> "none", pc |-> "off", draft |-> NoRequest, message |-> "",
     shown |-> FALSE, offered |-> FALSE, answer |-> "", written |-> {}]

TruncIdle ==
    /\ text = "" /\ char_limit = 0 /\ once = "" /\ twice = "" /\ tpc = "build"
    /\ input = "" /\ output = << >> /\ fpc = "build"
    /\ calls = [c \in Callers |-> NoCall]
    /\ ui = NoSession

Init ==
    /\ hashseed \in 0..(MaxSeed - 1)
    /\ pc = "idle"
    /\ request = NoRequest
    /\ i = 0
    /\ variations = << >>
    /\ analysis = ""
    /\ error = ""
    /\ invoked = << >>
    /\ previous = None
    /\ agent = ContentCreationAgent
    /\ TruncIdle

\* agent.generate_content(request) is called
Call(req) ==
    /\ pc = "idle"
    /\ request' = req
    /\ pc' = "validate"
    /\ UNCHANGED <<hashseed, agent, i, variations, analysis, error, invoked, previous>>
    /\ UNCHANGED <<trunc_vars, fn_vars, call_vars, ui_vars>>

\* lines 111-115: the content type is looked up; variations = []
Validate ==
    /\ pc = "validate"
    /\ IF request.content_type \notin agent.content_types
       THEN /\ error' = ContentGenerationFailed(UnsupportedContentType(request))
            /\ pc' = "raised"
            /\ UNCHANGED <<i, variations>>
       ELSE /\ pc' = "generate"
            /\ i' = 0
            /\ variations' = << >>
            /\ UNCHANGED error
    /\ UNCHANGED <<hashseed, agent, request, analysis, invoked, previous>>
    /\ UNCHANGED <<trunc_vars, fn_vars, call_vars, ui_vars>>

\* lines 118-120: one turn of the loop
GenerateVariation ==
    /\ pc = "generate"
    /\ i < 3
    /\ LET built == _generate_single_variation(request, i)
       IN  /\ invoked' = Append(invoked, <<request.content_type, i>>)
           /\ IF built.raised
              THEN /\ error' = ContentGenerationFailed(built.message)
                   /\ pc' = "raised"
                   /\ UNCHANGED <<i, variations>>
              ELSE /\ variations' = Append(variations, built.value)
                   /\ i' = i + 1
                   /\ UNCHANGED <<pc, error>>
    /\ UNCHANGED <<hashseed, agent, request, analysis, previous>>
    /\ UNCHANGED <<trunc_vars, fn_vars, call_vars, ui_vars>>

\* The resolved word count written back into the request
Analyse_filling_defaults ==
    /\ pc = "generate"
    /\ i = 3
    /\ analysis' = _generate_content_analysis(request, variations)
    /\ request' = [request EXCEPT
                      !.word_count =
                          Some(or_int(@, _get_default_word_count(request.content_type)))]
    /\ pc' = "returned"
    /\ UNCHANGED <<hashseed, agent, i, variations, error, invoked, previous>>
    /\ UNCHANGED <<trunc_vars, fn_vars, call_vars, ui_vars>>

\* lines 123-125: the analysis is generated and the pair returned
Analyse ==
    /\ pc = "generate"
    /\ i = 3
    /\ analysis' = _generate_content_analysis(request, variations)
    /\ pc' = "returned"
    /\ UNCHANGED <<hashseed, agent, request, i, variations, error, invoked, previous>>
    /\ UNCHANGED <<trunc_vars, fn_vars, call_vars, ui_vars>>

Next ==
    \/ \E req \in Requests : Call(req)
    \/ Validate
    \/ GenerateVariation
    \/ Analyse

Spec == Init /\ [][Next]_vars

(* ------------------- generate_content called twice --------------------- *)

\* The requests of examples.py, and each with a tone that is none of the five
RepeatRequests ==
    Examples \cup {[r EXCEPT !.tone = "sarcastic"] : r \in Examples}

\* What a finished call left: how it ended, its result or its error
Outcome ==
    [pc |-> pc, variations |-> variations, analysis |-> analysis, error |-> error]

\* agent.generate_content(request) is called a second time in the same
\* process run, with an equal request, once the first call has ended; the
\* agent holds nothing but the tables __init__ builds, so a fresh agent is in
\* the same state
CallAgain ==
    /\ pc \in {"returned", "raised"}
    /\ previous = None
    /\ previous' = Some(Outcome)
    /\ pc' = "validate"
    /\ i' = 0
    /\ variations' = << >>
    /\ analysis' = ""
    /\ error' = ""
    /\ invoked' = << >>
    /\ UNCHANGED <<hashseed, agent, request>>
    /\ UNCHANGED <<trunc_vars, fn_vars, call_vars, ui_vars>>

NextTwice ==
    \/ \E req \in RepeatRequests : Call(req)
    \/ Validate
    \/ GenerateVariation
    \/ Analyse
    \/ CallAgain

SpecTwice == Init /\ [][NextTwice]_vars

(* ------------- generate_content called by two callers at once ---------- *)

\* lines 47-53: the bound method the table holds under a key, applied
content_types_entry(key, req, variation_index) ==
    CASE key = "blog" -> _generate_blog_content(req, variation_index)
      [] key = "social_media" -> _generate_social_content(req, variation_index)
      [] key = "newsletter" -> _generate_newsletter_content(req, variation_index)
      [] key = "video_script" -> _generate_video_script(req, variation_index)
      [] key = "email_campaign" -> _generate_email_campaign(req, variation_index)

\* The requests the callers pass: the article and the script of examples.py,
\* one whose tone is none of the five and one whose content type is none of
\* the five
SharedRequests ==
    {r \in Examples : r.content_type \in {"blog", "video_script"}}
    \cup {ContentRequest("Remote Work", "blog", "tech_leads", "sarcastic", None, None),
          ContentRequest("Remote Work", "podcast", "tech_leads", "informative", None,
                         None)}

\* Caller c calls agent.generate_content(req); its parameters and locals live
\* in its own frame
SharedCall(c, req) ==
    /\ calls[c].pc = "idle"
    /\ calls' = [calls EXCEPT ![c] = [@ EXCEPT !.pc = "validate", !.request = req]]
    /\ UNCHANGED <<gen_vars, trunc_vars, fn_vars, ui_vars>>

\* lines 111-115 in caller c's frame
SharedValidate(c) ==
    /\ calls[c].pc = "validate"
    /\ calls' =
           [calls EXCEPT ![c] =
               IF @.request.content_type \notin agent.content_types
               THEN [@ EXCEPT !.pc = "raised",
                              !.error = ContentGenerationFailed(
                                            UnsupportedContentType(calls[c].request))]
               ELSE [@ EXCEPT !.pc = "generate", !.i = 0, !.variations = << >>]]
    /\ UNCHANGED <<gen_vars, trunc_vars, fn_vars, ui_vars>>

\* line 131 in caller c's frame: generator_func = self.content_types[...]
SharedLookup(c) ==
    /\ calls[c].pc = "generate"
    /\ calls[c].i < 3
    /\ calls[c].generator_func = None
    /\ calls' =
           [calls EXCEPT ![c] =
               IF @.request.content_type \in agent.content_types
               THEN [@ EXCEPT !.generator_func = Some(calls[c].request.content_type)]
               ELSE [@ EXCEPT !.pc = "raised",
                              !.error = ContentGenerationFailed(
                                            "'" \o calls[c].request.content_type
                                            \o "'")]]
    /\ UNCHANGED <<gen_vars, trunc_vars, fn_vars, ui_vars>>

\* The loop variable kept in one place for every caller
SharedBuild_one_loop_variable(c) ==
    /\ calls[c].pc = "generate"
    /\ calls[c].generator_func # None
    /\ LET f == calls[c]
           built == content_types_entry(f.generator_func[1], f.request, i)
       IN  calls' =
               [calls EXCEPT ![c] =
                   IF built.raised
                   THEN [@ EXCEPT !.pc = "raised",
                                  !.error = ContentGenerationFailed(built.message)]
                   ELSE [@ EXCEPT !.variations = Append(@, built.value),
                                  !.i = @ + 1,
                                  !.generator_func = None]]
    /\ i' = (i + 1) % 3
    /\ UNCHANGED <<hashseed, agent, pc, request, variations, analysis, error, invoked,
                   previous>>
    /\ UNCHANGED <<trunc_vars, fn_vars, ui_vars>>

\* line 132 and lines 119-120 in caller c's frame: the builder runs, with its
\* section generators, and its output is appended
SharedBuild(c) ==
    /\ calls[c].pc = "generate"
    /\ calls[c].generator_func # None
    /\ LET f == calls[c]
           built == content_types_entry(f.generator_func[1], f.request, f.i)
       IN  calls' =
               [calls EXCEPT ![c] =
                   IF built.raised
                   THEN [@ EXCEPT !.pc = "raised",
                                  !.error = ContentGenerationFailed(built.message)]
                   ELSE [@ EXCEPT !.variations = Append(@, built.value),
                                  !.i = @ + 1,
                                  !.generator_func = None]]
    /\ UNCHANGED <<gen_vars, trunc_vars, fn_vars, ui_vars>>

\* lines 123-125 in caller c's frame
SharedAnalyse(c) ==
    /\ calls[c].pc = "generate"
    /\ calls[c].i = 3
    /\ calls' =
           [calls EXCEPT ![c] =
               [@ EXCEPT !.pc = "returned",
                         !.analysis = _generate_content_analysis(calls[c].request,
                                                                 calls[c].variations)]]
    /\ UNCHANGED <<gen_vars, trunc_vars, fn_vars, ui_vars>>

NextShared ==
    \/ \E c \in Callers, req \in SharedRequests : SharedCall(c, req)
    \/ \E c \in Callers : SharedValidate(c)
    \/ \E c \in Callers : SharedLookup(c)
    \/ \E c \in Callers : SharedBuild(c)
    \/ \E c \in Callers : SharedAnalyse(c)

SpecShared == Init /\ [][NextShared]_vars

(* ---------------------- the command-line front-ends -------------------- *)

\* content_ui.py and content_ui_simple.py, each one step per prompt or call.
\* Line 333 of content_ui.py begins with the character U+3002, which Python
\* rejects when it compiles the file; the methods are modelled as they are
\* written, without that character.

\* s.strip()
RECURSIVE str_strip(_)
str_strip(s) ==
    IF Len(s) = 0 THEN s
    ELSE IF CharAt(s, 1) \in Whitespace THEN str_strip(Drop(s, 1))
    ELSE IF CharAt(s, Len(s)) \in Whitespace THEN str_strip(Take(s, -1))
    ELSE s

DecimalDigits == <<"0", "1", "2", "3", "4", "5", "6", "7", "8", "9">>

\* The value of a text of decimal digits
RECURSIVE digits_value(_)
digits_value(s) ==
    LET last == (CHOOSE k \in 1..10 : DecimalDigits[k] = CharAt(s, Len(s))) - 1
    IN  IF Len(s) = 1 THEN last ELSE 10 * digits_value(Take(s, -1)) + last

\* int(s) for a str: blanks around are dropped, one sign may lead, the rest
\* must be decimal digits; None stands for ValueError (the entries typed hold
\* no underscore)
int_str(s) ==
    LET t == str_strip(s)
        signed == Len(t) > 0 /\ CharAt(t, 1) \in {"-", "+"}
        digits == IF signed THEN Drop(t, 1) ELSE t
        valid == /\ Len(digits) > 0
                 /\ \A k \in 1..Len(digits) :
                        \E d \in 1..10 : DecimalDigits[d] = CharAt(digits, k)
    IN  IF ~valid THEN None
        ELSE IF signed /\ CharAt(t, 1) = "-" THEN Some(0 - digits_value(digits))
        ELSE Some(digits_value(digits))

\* c * n for a one-character str c
RECURSIVE str_times(_, _)
str_times(c, n) ==
    IF n <= 0 THEN ""
    ELSE IF n = 1 THEN c
    ELSE str_times(c, n \div 2) \o str_times(c, n - n \div 2)

\* What the user types at a word-count prompt
WordCountEntries == {"", "abc", "12.5", "0", "-5", "300", " 42 "}

\* What the user types at the topic prompt of content_ui_simple.py
TopicEntries == {"", " Remote Work "}

\* What the user types at the call-to-action prompt
CtaEntries == {"", "Book a demo today."}

\* What the user types at a yes/no prompt
YesNoEntries == {"y", "n"}

\* What the clock gives when a file name is made
Timestamps == {"20240131_093000"}

\* The topic, content type, audience and tone the user gives at the first
\* four prompts: the article and the script of examples.py
FrontEndDrafts ==
    {[r EXCEPT !.word_count = None] : r \in {e \in Examples :
                                               e.content_type \in {"blog", "video_script"}}}

\* content_ui.py, get_word_count lines 231-239
defaults(content_type) ==
    CASE content_type = "blog" -> 800
      [] content_type = "social_media" -> 200
      [] content_type = "newsletter" -> 600
      [] content_type = "video_script" -> 1200
      [] content_type = "email_campaign" -> 400
      [] OTHER -> 500

\* The head of a saved variation: content_ui.py lines 366-380 and
\* content_ui_simple.py lines 187-200, which are the same statements
variation_file_head(req, variation, n) ==
    "CONTENT VARIATION " \o str(n) \o "\n"
    \o str_times("=", 50) \o "\n\n"
    \o "Topic: " \o req.topic \o "\n"
    \o "Type: " \o req.content_type \o "\n"
    \o "Audience: " \o req.target_audience \o "\n"
    \o "Tone: " \o req.tone \o "\n"
    \o "Word Count: " \o str(variation.word_count) \o "\n"
    \o "Title: " \o variation.title \o "\n\n"
    \o (IF Len(variation.call_to_action) > 0
        THEN "Call-to-Action: " \o variation.call_to_action \o "\n\n" ELSE "")
    \o (IF Len(variation.tags) > 0
        THEN "Tags: " \o str_join(variation.tags, ", ") \o "\n\n" ELSE "")
    \o "CONTENT:\n"
    \o str_times("-", 20) \o "\n"
    \o variation.content

\* request.topic.lower().replace(" ", "_")[:20]; content_ui.py goes on with
\* .replace("_", "_"), which changes nothing
topic_prefix(req) == Take(str_replace(str_lower(req.topic), " ", "_"), 20)

\* content_ui.py save_content: the files it writes, as name and text (the
\* directory can be made and every write succeeds)
save_content(vs, analysis_text, req, timestamp) ==
    {[name |-> "generated_content/" \o topic_prefix(req) \o "_variation_" \o str(n)
               \o "_" \o timestamp \o ".txt",
      text |-> variation_file_head(req, vs[n], n) \o "\n" \o str_times("=", 50) \o "\n"] :
        n \in 1..Len(vs)}
    \cup {[name |-> "generated_content/" \o topic_prefix(req) \o "_analysis_"
                    \o timestamp \o ".txt",
           text |-> "CONTENT ANALYSIS\n" \o str_times("=", 50) \o "\n\n"
                    \o analysis_text]}

\* content_ui_simple.py save_content: the files it writes
simple_save_content(vs, req, timestamp) ==
    {[name |-> "generated_content/" \o topic_prefix(req) \o "_variation_" \o str(n)
               \o "_" \o timestamp \o ".txt",
      text |-> variation_file_head(req, vs[n], n)] : n \in 1..Len(vs)}

\* The parameters of ContentCreationUI.offer_save_option after self
offer_save_option_parameters == <<"variations", "analysis", "request">>

\* A front-end is started: ContentCreationUI().run() shows the main menu,
\* content_ui_simple.main() asks for the topic
StartFrontEnd(front) ==
    /\ ui.pc = "off"
    /\ ui' = [ui EXCEPT !.front = front,
                        !.pc = IF front = "content_ui" THEN "menu" ELSE "topic"]
    /\ UNCHANGED <<gen_vars, trunc_vars, fn_vars, call_vars>>

\* content_ui.py: menu choice 1, then create_content and
\* gather_content_requirements up to the tone (lines 83-126); an empty topic
\* or an entry outside a menu is asked again by the loops of get_input and
\* the select_ methods. Choices 2 to 4 print and come back to the menu. The
\* locals of the round before are gone.
gather_content_requirements(draft) ==
    /\ ui.front = "content_ui"
    /\ ui.pc = "menu"
    /\ ui' = [ui EXCEPT !.pc = "word_count", !.draft = draft, !.message = "",
                        !.shown = FALSE, !.offered = FALSE, !.answer = "",
                        !.written = {}]
    /\ pc' = "idle"
    /\ request' = NoRequest
    /\ i' = 0
    /\ variations' = << >>
    /\ analysis' = ""
    /\ error' = ""
    /\ invoked' = << >>
    /\ UNCHANGED <<hashseed, agent, previous>>
    /\ UNCHANGED <<trunc_vars, fn_vars, call_vars>>

\* content_ui.py get_word_count lines 241-253: one turn of its loop
get_word_count(entry) ==
    /\ ui.front = "content_ui"
    /\ ui.pc = "word_count"
    /\ LET choice == str_strip(entry)
           count == int_str(choice)
       IN  ui' =
               IF Len(choice) = 0
               THEN [ui EXCEPT !.pc = "options",
                               !.draft.word_count = Some(defaults(ui.draft.content_type))]
               ELSE IF count = None
               THEN [ui EXCEPT !.message = "~ Please enter a valid number."]
               ELSE IF count[1] > 0
               THEN [ui EXCEPT !.pc = "options", !.draft.word_count = count]
               ELSE [ui EXCEPT !.message = "~ Word count must be positive."]
    /\ UNCHANGED <<gen_vars, trunc_vars, fn_vars, call_vars>>

\* content_ui.py lines 133-148 and 95-96: the platform is None for a type
\* other than social_media, the call to action is asked, both yes/no prompts
\* are answered with Enter, the request is built and generate_content called
create_content(cta_entry) ==
    /\ ui.front = "content_ui"
    /\ ui.pc = "options"
    /\ LET choice == str_strip(cta_entry)
       IN  request' = [ui.draft EXCEPT
                          !.call_to_action = IF Len(choice) > 0 THEN Some(choice) ELSE None]
    /\ pc' = "validate"
    /\ ui' = [ui EXCEPT !.pc = "calling"]
    /\ UNCHANGED <<hashseed, agent, i, variations, analysis, error, invoked, previous>>
    /\ UNCHANGED <<trunc_vars, fn_vars, call_vars>>

\* content_ui.py line 99, display_results (303-337), or lines 104-105 when
\* generate_content raised
display_results ==
    /\ ui.front = "content_ui"
    /\ ui.pc = "calling"
    /\ pc \in {"returned", "raised"}
    /\ ui' = IF pc = "returned"
             THEN [ui EXCEPT !.pc = "displayed", !.shown = TRUE]
             ELSE [ui EXCEPT !.pc = "menu",
                             !.message = "~ Error creating content: " \o error]
    /\ UNCHANGED <<gen_vars, trunc_vars, fn_vars, call_vars>>

\* content_ui.py line 102: self.offer_save_option(variations, analysis), a
\* call that binds its arguments to the parameters of lines 339-346 and, once
\* bound, asks and calls save_content (348-388); a TypeError of the call is
\* caught at lines 104-105
offer_save_option(answer, timestamp) ==
    /\ ui.front = "content_ui"
    /\ ui.pc = "displayed"
    /\ LET arguments == <<variations, analysis>>
       IN  ui' =
               IF Len(arguments) # Len(offer_save_option_parameters)
               THEN [ui EXCEPT
                        !.pc = "menu",
                        !.message =
                            "~ Error creating content: ContentCreationUI.offer_save_option() "
                            \o "missing 1 required positional argument: 'request'"]
               ELSE IF answer = "y"
               THEN [ui EXCEPT !.pc = "menu", !.offered = TRUE, !.answer = answer,
                               !.written = save_content(arguments[1], arguments[2],
                                                        request, timestamp),
                               !.message = "~ Content saved successfully!"]
               ELSE [ui EXCEPT !.pc = "menu", !.offered = TRUE, !.answer = answer]
    /\ UNCHANGED <<gen_vars, trunc_vars, fn_vars, call_vars>>

\* content_ui.py: menu choice 5, exit_gracefully (476-480); run's loop ends
exit_gracefully ==
    /\ ui.front = "content_ui"
    /\ ui.pc = "menu"
    /\ ui' = [ui EXCEPT !.pc = "exited"]
    /\ UNCHANGED <<gen_vars, trunc_vars, fn_vars, call_vars>>

\* content_ui_simple.py lines 27-93: an empty topic leaves the loop; the
\* three menus ask again until an entry is one of theirs
main_topic(topic_entry, draft) ==
    /\ ui.front = "content_ui_simple"
    /\ ui.pc = "topic"
    /\ LET topic == str_strip(topic_entry)
       IN  ui' = IF Len(topic) = 0
                 THEN [ui EXCEPT !.pc = "exited"]
                 ELSE [ui EXCEPT !.pc = "word_count",
                                 !.draft = [draft EXCEPT !.topic = topic],
                                 !.message = "", !.shown = FALSE, !.offered = FALSE,
                                 !.answer = "", !.written = {}]
    /\ pc' = "idle"
    /\ request' = NoRequest
    /\ i' = 0
    /\ variations' = << >>
    /\ analysis' = ""
    /\ error' = ""
    /\ invoked' = << >>
    /\ UNCHANGED <<hashseed, agent, previous>>
    /\ UNCHANGED <<trunc_vars, fn_vars, call_vars>>

\* content_ui_simple.py lines 96-97, outside of any try: a ValueError of
\* int() ends main and the process with a traceback
main_word_count(entry) ==
    /\ ui.front = "content_ui_simple"
    /\ ui.pc = "word_count"
    /\ LET word_count == str_strip(entry)
       IN  ui' =
               IF Len(word_count) = 0
               THEN [ui EXCEPT !.pc = "options", !.draft.word_count = None]
               ELSE IF int_str(word_count) = None
               THEN [ui EXCEPT
                        !.pc = "crashed",
                        !.message = "ValueError: invalid literal for int() with base 10: '"
                                    \o word_count \o "'"]
               ELSE [ui EXCEPT !.pc = "options", !.draft.word_count = int_str(word_count)]
    /\ UNCHANGED <<gen_vars, trunc_vars, fn_vars, call_vars>>

\* content_ui_simple.py lines 99-139: no platform is asked for a type other
\* than social_media, the call to action is asked, the request is built and
\* generate_content called
main_generate(cta_entry) ==
    /\ ui.front = "content_ui_simple"
    /\ ui.pc = "options"
    /\ LET cta == str_strip(cta_entry)
       IN  request' = [ui.draft EXCEPT
                          !.call_to_action = IF Len(cta) > 0 THEN Some(cta) ELSE None]
    /\ pc' = "validate"
    /\ ui' = [ui EXCEPT !.pc = "calling"]
    /\ UNCHANGED <<hashseed, agent, i, variations, analysis, error, invoked, previous>>
    /\ UNCHANGED <<trunc_vars, fn_vars, call_vars>>

\* content_ui_simple.py lines 141-157, or 162-163 when generate_content raised
main_show ==
    /\ ui.front = "content_ui_simple"
    /\ ui.pc = "calling"
    /\ pc \in {"returned", "raised"}
    /\ ui' = IF pc = "returned"
             THEN [ui EXCEPT !.pc = "displayed", !.shown = TRUE]
             ELSE [ui EXCEPT !.pc = "more", !.message = "[ERROR] " \o error]
    /\ UNCHANGED <<gen_vars, trunc_vars, fn_vars, call_vars>>

\* content_ui_simple.py lines 159-160 and save_content (170-209)
main_save(answer, timestamp) ==
    /\ ui.front = "content_ui_simple"
    /\ ui.pc = "displayed"
    /\ ui' = IF str_lower(answer) = "y"
             THEN [ui EXCEPT !.pc = "more", !.offered = TRUE, !.answer = answer,
                             !.written = simple_save_content(variations, request,
                                                             timestamp),
                             !.message = "[OK] Content saved to generated_content/"]
             ELSE [ui EXCEPT !.pc = "more", !.offered = TRUE, !.answer = answer]
    /\ UNCHANGED <<gen_vars, trunc_vars, fn_vars, call_vars>>

\* content_ui_simple.py lines 165-168
main_more(answer) ==
    /\ ui.front = "content_ui_simple"
    /\ ui.pc = "more"
    /\ ui' = [ui EXCEPT !.pc = IF str_lower(answer) # "y" THEN "exited" ELSE "topic"]
    /\ UNCHANGED <<gen_vars, trunc_vars, fn_vars, call_vars>>

NextFrontEnd ==
    \/ \E front \in {"content_ui", "content_ui_simple"} : StartFrontEnd(front)
    \/ \E draft \in FrontEndDrafts : gather_content_requirements(draft)
    \/ \E entry \in WordCountEntries : get_word_count(entry)
    \/ \E entry \in CtaEntries : create_content(entry)
    \/ display_results
    \/ \E answer \in YesNoEntries, timestamp \in Timestamps :
           offer_save_option(answer, timestamp)
    \/ exit_gracefully
    \/ \E entry \in TopicEntries, draft \in FrontEndDrafts : main_topic(entry, draft)
    \/ \E entry \in WordCountEntries : main_word_count(entry)
    \/ \E entry \in CtaEntries : main_generate(entry)
    \/ main_show
    \/ \E answer \in YesNoEntries, timestamp \in Timestamps : main_save(answer, timestamp)
    \/ \E answer \in YesNoEntries : main_more(answer)
    \/ Validate
    \/ GenerateVariation
    \/ Analyse

SpecFrontEnd == Init /\ [][NextFrontEnd]_vars

(* ----------------------- _truncate_to_limit alone ---------------------- *)

TextAlphabet == {"a", " ", "."}

InitTrunc ==
    /\ hashseed = 0
    /\ pc = "idle"
    /\ request = NoRequest
    /\ i = 0
    /\ variations = << >>
    /\ analysis = ""
    /\ error = ""
    /\ invoked = << >>
    /\ previous = None
    /\ agent = ContentCreationAgent
    /\ TruncIdle

\* The text grows by one character
Type(c) ==
    /\ tpc = "build"
    /\ Len(text) < MaxLen
    /\ text' = text \o c
    /\ UNCHANGED <<char_limit, once, twice, tpc>>
    /\ UNCHANGED <<gen_vars, fn_vars, call_vars, ui_vars>>

\* _truncate_to_limit(text, limit)
Truncate(limit) ==
    /\ tpc = "build"
    /\ char_limit' = limit
    /\ once' = _truncate_to_limit(text, limit)
    /\ tpc' = "cut"
    /\ UNCHANGED <<text, twice>>
    /\ UNCHANGED <<gen_vars, fn_vars, call_vars, ui_vars>>

\* _truncate_to_limit applied to its own result with the same limit
Retruncate ==
    /\ tpc = "cut"
    /\ twice' = _truncate_to_limit(once, char_limit)
    /\ tpc' = "done"
    /\ UNCHANGED <<text, char_limit, once>>
    /\ UNCHANGED <<gen_vars, fn_vars, call_vars, ui_vars>>

NextTrunc ==
    \/ \E c \in TextAlphabet : Type(c)
    \/ \E limit \in 0..MaxLimit : Truncate(limit)
    \/ Retruncate

SpecTrunc == InitTrunc /\ [][NextTrunc]_vars

(* ----------------------- _generate_seo_tags alone ---------------------- *)

\* The words a topic is made of: a stop-word and a base tag, both capitalised,
\* and a word that repeats the first other word in capitals
TopicWords == {"The", "Growth", "B"}

\* Words that are neither stop-words nor base tags, each of one letter
OtherWords == <<"b", "c", "d", "e", "f", "g", "h", "k">>

\* The first of OtherWords that is not yet in the topic
NextOther(topic) ==
    LET words == str_split(topic)
        used == {k \in 1..Len(OtherWords) :
                    \E j \in 1..Len(words) : words[j] = OtherWords[k]}
    IN  OtherWords[Cardinality(used) + 1]

InitTags ==
    /\ hashseed \in 0..(MaxSeed - 1)
    /\ pc = "idle"
    /\ request = NoRequest
    /\ i = 0
    /\ variations = << >>
    /\ analysis = ""
    /\ error = ""
    /\ invoked = << >>
    /\ previous = None
    /\ agent = ContentCreationAgent
    /\ TruncIdle

\* The topic grows by one word
AddWord(word) ==
    /\ fpc = "build"
    /\ Len(str_split(input)) < MaxWords
    /\ input' = IF input = "" THEN word ELSE input \o " " \o word
    /\ UNCHANGED <<output, fpc>>
    /\ UNCHANGED <<gen_vars, trunc_vars, call_vars, ui_vars>>

\* _generate_seo_tags(input)
SeoTags ==
    /\ fpc = "build"
    /\ output' = _generate_seo_tags(input)
    /\ fpc' = "done"
    /\ UNCHANGED input
    /\ UNCHANGED <<gen_vars, trunc_vars, call_vars, ui_vars>>

\* The word added is one of TopicWords, or a word the topic does not hold
NextTags ==
    \/ /\ fpc = "build"
       /\ \E word \in TopicWords \cup {NextOther(input)} : AddWord(word)
    \/ SeoTags

SpecTags == InitTags /\ [][NextTags]_vars

(* ----------------------- _extract_headings alone ----------------------- *)

\* The lines a document is made of: headings of one and two marks, a heading
\* with two spaces, marks with no text after them, marks with no space after
\* them, an indented mark, a line of text and an empty line
DocLines == {"# A", "## B", "#  C", "#", "# ", "#D", " # E", "text", ""}

\* The number of lines of a document
LineCount(doc) ==
    IF doc = "" THEN 0
    ELSE Cardinality({k \in 1..Len(doc) : CharAt(doc, k) = "\n"}) + 1

\* The document grows by one line
AddLine(line) ==
    /\ fpc = "build"
    /\ LineCount(input) < MaxLines
    /\ input' = IF input = "" THEN line ELSE input \o "\n" \o line
    /\ UNCHANGED <<output, fpc>>
    /\ UNCHANGED <<gen_vars, trunc_vars, call_vars, ui_vars>>

\* _extract_headings(input)
ExtractHeadings ==
    /\ fpc = "build"
    /\ output' = _extract_headings(input)
    /\ fpc' = "done"
    /\ UNCHANGED input
    /\ UNCHANGED <<gen_vars, trunc_vars, call_vars, ui_vars>>

NextHeadings ==
    \/ \E line \in DocLines : AddLine(line)
    \/ ExtractHeadings

SpecHeadings == InitTrunc /\ [][NextHeadings]_vars

(* ------------------- article requests of any topic str ----------------- *)

\* Topics as ContentRequest.topic allows them, any str: the topic of
\* examples.py, topics with a "#" inside, at the start and at the end, and
\* topics with a line break before "#"
ArticleTopics ==
    {"Benefits of DevOps for Startups", "C# for Games", "# Hot Takes", "Tips #",
     "AI\n# Hacked", "AI\n#"}

\* The article requests of every such topic and every tone of the table
ArticleRequests ==
    {ContentRequest(topic, "blog", "startup_founders", tone, None, None) :
        topic \in ArticleTopics, tone \in DOMAIN tone_templates}

NextArticle ==
    \/ \E req \in ArticleRequests : Call(req)
    \/ Validate
    \/ GenerateVariation
    \/ Analyse

SpecArticle == Init /\ [][NextArticle]_vars

(* ------------------------- topic normalization ------------------------- *)

\* The pieces a topic is made of: the two fragments the normalization removes,
\* a word, and a word that begins with "for"
TopicPieces == {"Benefits of ", " for", "DevOps", " formats"}

\* The topic grows by one piece
AddPiece(piece) ==
    /\ fpc = "build"
    /\ Len(input) + Len(piece) <= MaxTopic
    /\ input' = input \o piece
    /\ UNCHANGED <<output, fpc>>
    /\ UNCHANGED <<gen_vars, trunc_vars, call_vars, ui_vars>>

\* topic_clean = topic.replace('Benefits of ', '').replace(' for', ''), as
\* _generate_question_post and _generate_default_cta begin
CleanTopic ==
    /\ fpc = "build"
    /\ output' = <<topic_clean(input)>>
    /\ fpc' = "done"
    /\ UNCHANGED input
    /\ UNCHANGED <<gen_vars, trunc_vars, call_vars, ui_vars>>

NextTopic ==
    \/ \E piece \in TopicPieces : AddPiece(piece)
    \/ CleanTopic

SpecTopic == InitTrunc /\ [][NextTopic]_vars

(* ------------------------------- claims -------------------------------- *)

FiveKinds == {"blog", "social_media", "newsletter", "video_script", "email_campaign"}
FiveTones == {"professional", "conversational", "persuasive", "informative", "humorous"}
FourAudiences ==
    {"startup_founders", "tech_leads", "marketing_professionals", "general_audience"}

\* The number of whitespace-separated tokens of a text, counted at the last
\* character of each token
WordTokens(txt) ==
    Cardinality({k \in 1..Len(txt) :
                    /\ CharAt(txt, k) \notin Whitespace
                    /\ k = Len(txt) \/ CharAt(txt, k + 1) \in Whitespace})

\* The short post of variation index idx under a budget of limit characters
PostUnder(req, idx, limit) ==
    IF idx = 0 THEN _generate_question_post(req.topic, req.target_audience, limit)
    ELSE IF idx = 1 THEN _generate_value_post(req.topic, req.target_audience, limit)
    ELSE _generate_story_post(req.topic, req.target_audience, limit)

\* The character budget the specification gives a platform
Budget(platform) ==
    IF platform = Some("twitter") THEN 280
    ELSE IF platform = Some("linkedin") THEN 700
    ELSE IF platform = Some("facebook") THEN 500
    ELSE IF platform = Some("instagram") THEN 2200
    ELSE 300

\* The call failed with the unsupported-content-type error, whose message
\* carries the request's content type
UnsupportedError ==
    /\ pc = "raised"
    /\ error = "Content generation failed: Unsupported content type: "
                   \o request.content_type

\* C1: a call that returns has built exactly 3 variations, by calling the
\* builder of the request's content type with the indices 0, 1, 2 in that
\* order, and holds them in that order; a short post's three variations are
\* the question post, the value post and the story post, in that order.
C1_ThreeVariationsInIndexOrder ==
    /\ \A k \in 1..Len(invoked) : invoked[k] = <<request.content_type, k - 1>>
    /\ Len(variations) <= Len(invoked)
    /\ \A k \in 1..Len(variations) :
          variations[k] = _generate_single_variation(request, k - 1).value
    /\ pc = "returned" =>
          /\ Len(variations) = 3
          /\ Len(invoked) = 3
          /\ request.content_type \in FiveKinds
          /\ request.content_type = "social_media" =>
                LET limit == Budget(request.platform)
                IN  /\ variations[1].content =
                          _generate_question_post(request.topic,
                                                  request.target_audience, limit)
                    /\ variations[2].content =
                          _generate_value_post(request.topic,
                                               request.target_audience, limit)
                    /\ variations[3].content =
                          _generate_story_post(request.topic,
                                               request.target_audience, limit)
C1_Witness ==
    /\ pc = "returned"
    /\ request.content_type = "social_media"
    /\ Len(variations) = 3
    /\ variations[1].content # variations[2].content

\* C2: once the content type has been looked up, the call has failed with the
\* unsupported-content-type error exactly when the type is none of the five
\* kinds; and when it has, no builder was called and no variation built.
C2_UnsupportedExactlyWhenUnknown ==
    /\ pc \in {"generate", "returned", "raised"} =>
          (UnsupportedError <=> request.content_type \notin FiveKinds)
    /\ UnsupportedError => invoked = << >> /\ variations = << >>
C2_Witness ==
    /\ UnsupportedError
    /\ request.content_type = "podcast"

\* C3: the word_count of every variation built is the number of
\* whitespace-separated tokens of its content.
C3_WordCountIsTokenCount ==
    \A k \in 1..Len(variations) :
        variations[k].word_count = WordTokens(variations[k].content)
C3_Witness ==
    /\ pc = "returned"
    /\ request.content_type = "blog"
    /\ variations[1].word_count > 100

\* C4 as claimed: whatever the content type, a call whose tone is none of the
\* five tones does not return.
C4_UnknownToneAlwaysFails ==
    pc = "returned" => request.tone \in FiveTones

\* C4 as amended: an article (blog) request whose tone is none of the five
\* tones fails before any variation is built, with the message of the failed
\* tone lookup; the other four builders never look the tone up, and a request
\* of their content types never fails, whatever its tone.
C4_UnknownToneFailsArticleOnly ==
    /\ (request.content_type = "blog" /\ request.tone \notin FiveTones) =>
          /\ pc # "returned"
          /\ variations = << >>
          /\ pc = "raised" =>
                error = "Content generation failed: '" \o request.tone \o "'"
    /\ request.content_type \in FiveKinds \ {"blog"} => pc # "raised"
C4_Witness ==
    /\ pc = "raised"
    /\ request.content_type = "blog"
    /\ request.tone = "sarcastic"
    /\ Len(invoked) = 1

\* C5: a call fails only when its content type is none of the five kinds.
C5_FailsOnlyForUnknownType ==
    pc = "raised" => request.content_type \notin FiveKinds

\* C6: a request of a supported content type and a known tone never fails,
\* whatever its audience, platform, word count and call to action; the body of
\* an article for an unknown audience is the body for general_audience; and a
\* short post for an unknown or absent platform is cut to 300 characters.
C6_DefaultsNeverFail ==
    /\ (request.content_type \in FiveKinds /\ request.tone \in FiveTones) =>
          pc # "raised"
    /\ \A k \in 1..Len(variations) :
          /\ (request.content_type = "blog"
                 /\ request.target_audience \notin FourAudiences) =>
                variations[k].content =
                    _generate_blog_content(
                        [request EXCEPT !.target_audience = "general_audience"],
                        k - 1).value.content
          /\ (request.content_type = "social_media"
                 /\ request.platform \notin
                       {Some("twitter"), Some("linkedin"), Some("facebook"),
                        Some("instagram")}) =>
                variations[k].content = PostUnder(request, k - 1, 300)
C6_Witness ==
    /\ pc = "returned"
    /\ request.content_type = "blog"
    /\ request.target_audience = "students"
    /\ request.tone \in FiveTones

\* C7: _truncate_to_limit returns a text of at most limit characters as it is,
\* and a longer one as a text that ends in "..." and has at most limit + 3
\* characters.
C7_TruncateLength ==
    tpc \in {"cut", "done"} =>
        IF Len(text) <= char_limit THEN once = text
        ELSE /\ Len(once) <= char_limit + 3
             /\ Len(once) >= 3
             /\ SubSeq(once, Len(once) - 2, Len(once)) = "..."
C7_Witness ==
    /\ tpc = "cut"
    /\ Len(text) > char_limit
    /\ Len(once) = char_limit + 3
    /\ char_limit > 0

\* C8: _truncate_to_limit applied to its own result with the same limit
\* returns that result.
C8_TruncateIdempotent ==
    tpc = "done" => twice = once

\* The last space among the first char_limit characters of text, as a 0-based
\* index (-1 when there is none)
LastSpace ==
    LET spaces == {k \in 1..Len(text) : k <= char_limit /\ CharAt(text, k) = " "}
    IN  IF spaces = {} THEN -1 ELSE Max(spaces) - 1

\* C9 as claimed: a text longer than the limit is cut at the limit, unless the
\* last space of the cut is at or after 0.8 x limit, and then before that
\* space; "..." follows.
C9_RecutAtOrAfterFourFifths ==
    (tpc \in {"cut", "done"} /\ Len(text) > char_limit) =>
        once = (IF LastSpace >= 0 /\ 10 * LastSpace >= 8 * char_limit
                THEN SubSeq(text, 1, LastSpace)
                ELSE SubSeq(text, 1, char_limit)) \o "..."

\* C9 as amended: a text longer than the limit is cut at the limit, unless the
\* last space of the cut is strictly after 0.8 x limit, and then before that
\* space, so that the kept part ends where a word ends; "..." follows.
C9_RecutAfterFourFifths ==
    (tpc \in {"cut", "done"} /\ Len(text) > char_limit) =>
        once = (IF LastSpace >= 0 /\ 10 * LastSpace > 8 * char_limit
                THEN SubSeq(text, 1, LastSpace)
                ELSE SubSeq(text, 1, char_limit)) \o "..."
C9_Witness ==
    /\ tpc = "cut"
    /\ Len(text) > char_limit
    /\ 10 * LastSpace > 8 * char_limit
    /\ once = SubSeq(text, 1, LastSpace) \o "..."

\* C10: the content of every variation of a short post has at most the
\* platform's budget plus 3 characters.
C10_ShortPostWithinBudget ==
    request.content_type = "social_media" =>
        \A k \in 1..Len(variations) :
            Len(variations[k].content) <= Budget(request.platform) + 3
C10_Witness ==
    /\ pc = "returned"
    /\ request.content_type = "social_media"
    /\ request.platform = Some("twitter")
    /\ \E k \in 1..3 : Len(variations[k].content) > 280

\* C11: the bodies of the three variations of one returned call are pairwise
\* different.
C11_BodiesPairwiseDifferent ==
    pc = "returned" =>
        \A j, k \in 1..3 : j < k => variations[j].content # variations[k].content

\* The list of titles the builder of the request's content type picks the
\* title of variation index idx from; a short post has no list, its three
\* branches hold one title each
TitlePool(req, idx) ==
    CASE req.content_type = "blog" -> blog_title_options(req)
      [] req.content_type = "newsletter" -> newsletter_title_templates(req)
      [] req.content_type = "video_script" -> video_title_templates(req)
      [] req.content_type = "email_campaign" ->
            email_title_templates(req)[campaign_types[(idx % 3) + 1]]
      [] req.content_type = "social_media" ->
            <<social_title(req, 0), social_title(req, 1), social_title(req, 2)>>

\* C12 as claimed: every builder picks the title of variation index i from a
\* list of at least 4 titles, at position i mod the length of the list.
C12_AtLeastFourTitlesEach ==
    \A k \in 1..Len(variations) :
        LET pool == TitlePool(request, k - 1)
        IN  /\ Len(pool) >= 4
            /\ variations[k].title = pool[((k - 1) % Len(pool)) + 1]

\* C12 as amended: the article, digest and script builders pick the title of
\* variation index i from a list of at least 4 titles at position i mod its
\* length; the campaign-email builder picks it from the 2 titles of the
\* sub-type i mod 3, at position i mod 2; the short-post builder has one fixed
\* title per branch; and the three titles of one batch are pairwise
\* different.
C12_TitleByIndex ==
    /\ \A k \in 1..Len(variations) :
          LET pool == TitlePool(request, k - 1)
              title == variations[k].title
          IN  /\ request.content_type \in {"blog", "newsletter", "video_script"} =>
                    /\ Len(pool) >= 4
                    /\ title = pool[((k - 1) % Len(pool)) + 1]
              /\ request.content_type = "email_campaign" =>
                    /\ Len(pool) = 2
                    /\ pool = email_title_templates(request)[
                                  <<"welcome", "educational", "promotional">>[k]]
                    /\ title = pool[((k - 1) % 2) + 1]
              /\ request.content_type = "social_media" =>
                    title = <<"Quick Tip: " \o request.topic,
                              request.topic \o " Explained",
                              "My Experience with " \o request.topic>>[k]
    /\ \A j, k \in 1..Len(variations) :
          j < k => variations[j].title # variations[k].title
C12_Witness ==
    /\ pc = "returned"
    /\ request.content_type = "email_campaign"
    /\ variations[2].title = "The Science Behind " \o request.topic
    /\ variations[3].title = "Transform Your Business with " \o request.topic

Contains(s, sub) ==
    \E k \in 1..(Len(s) - Len(sub) + 1) : SubSeq(s, k, k + Len(sub) - 1) = sub

\* C14: every body of the article for "Benefits of DevOps for Startups"
\* contains "DevOps" and nowhere the topic as given (the article's headings
\* are fixed words, so its whole body is headings and prose sections).
C14_NoRawTopicInArticle ==
    (request.content_type = "blog"
        /\ request.topic = "Benefits of DevOps for Startups") =>
        \A k \in 1..Len(variations) :
            /\ Contains(variations[k].content, "DevOps")
            /\ ~Contains(variations[k].content, "Benefits of DevOps for Startups")

BaseTags == {"technology", "business", "strategy", "innovation", "growth"}
StopWords == {"of", "for", "the", "and", "a", "an"}

\* The lower-cased whitespace-separated words of a topic
LowerWords(topic) ==
    LET words == str_split(topic)
    IN  {str_lower(words[k]) : k \in 1..Len(words)}

\* C15: _generate_seo_tags returns at most 10 tags, no tag twice, no
\* stop-word, and each tag a base tag or a lower-cased word of the topic.
C15_SeoTagsWellFormed ==
    fpc = "done" =>
        LET allowed == BaseTags \cup LowerWords(input)
        IN  /\ Len(output) <= 10
            /\ \A j, k \in 1..Len(output) : j < k => output[j] # output[k]
            /\ \A k \in 1..Len(output) :
                  /\ output[k] \notin StopWords
                  /\ output[k] \in allowed
C15_Witness ==
    /\ fpc = "done"
    /\ Len(output) = 10
    /\ Cardinality(LowerWords(input)) = 6
    /\ \E k \in 1..10 : output[k] \notin BaseTags

\* The words a topic adds to the base tags
Contributed(topic) == (LowerWords(topic) \ StopWords) \ BaseTags

\* C16: when the topic adds at most 5 words to the base tags, the list
\* _generate_seo_tags returns holds all five base tags, next to those words.
C16_BaseTagsKept ==
    fpc = "done" =>
        LET added == Cardinality(Contributed(input))
        IN  added <= 5 =>
                /\ \A b \in BaseTags : \E k \in 1..Len(output) : output[k] = b
                /\ Len(output) = 5 + added
C16_Witness ==
    /\ fpc = "done"
    /\ Cardinality(Contributed(input)) = 5
    /\ Len(output) = 10
    /\ "growth" \in LowerWords(input)

RECURSIVE LinesOf(_)
\* The lines of a document, in order
LinesOf(doc) ==
    LET nl == {k \in 1..Len(doc) : CharAt(doc, k) = "\n"}
    IN  IF nl = {} THEN <<doc>>
        ELSE <<SubSeq(doc, 1, Min(nl) - 1)>> \o LinesOf(Drop(doc, Min(nl)))

\* What a line gives as a heading, as a list of none or one: the rest of a
\* line that begins with marks and then blanks, after those blanks (the last
\* blank, when nothing else follows them)
HeadingOfLine(line) ==
    LET h == RunEnd(line, 1, {"#"})
        w == RunEnd(line, h + 1, {" ", "\t"})
    IN  IF h < 1 \/ w < h + 1 THEN << >>
        ELSE IF w < Len(line) THEN <<Drop(line, w)>>
        ELSE IF w >= h + 2 THEN <<CharAt(line, w)>>
        ELSE << >>

RECURSIVE HeadingsOfLines(_)
HeadingsOfLines(lines) ==
    IF lines = << >> THEN << >>
    ELSE HeadingOfLine(Head(lines)) \o HeadingsOfLines(Tail(lines))

\* C17: _extract_headings returns, in the order of the lines and with
\* repetitions, the rest of each line that begins with marks and then blanks;
\* any other line gives nothing.
C17_HeadingsLineByLine ==
    fpc = "done" => output = HeadingsOfLines(LinesOf(input))

\* The four default calls to action of an article on a topic
DefaultCtas(topic) ==
    LET clean == str_replace(str_replace(topic, "Benefits of ", ""), " for", "")
    IN  <<"Ready to implement " \o clean
              \o " in your organization? Start with our free assessment tool.",
          "Want to learn more about " \o clean
              \o "? Download our comprehensive guide today.",
          "Start your " \o clean
              \o " journey today. Get personalized recommendations for your team.",
          "Transform your business with " \o clean
              \o ". Book a consultation to get started.">>

\* C18 as claimed: every variation of an article carries the request's
\* call_to_action when the request has one, and otherwise the default picked
\* by the topic's hash modulo 4.
C18_ArticleCtaOverride ==
    request.content_type = "blog" =>
        \A k \in 1..Len(variations) :
            variations[k].call_to_action =
                IF request.call_to_action # None THEN request.call_to_action[1]
                ELSE DefaultCtas(request.topic)[(hash(request.topic) % 4) + 1]

\* C18 as amended: every variation of an article carries the request's
\* call_to_action when the request has a non-empty one, and otherwise (none, or
\* the empty string) the default picked by the topic's hash modulo 4; the
\* three variations carry the same one.
C18_ArticleCtaNonEmptyOverride ==
    request.content_type = "blog" =>
        /\ \A k \in 1..Len(variations) :
              variations[k].call_to_action =
                  IF request.call_to_action \notin {None, Some("")}
                  THEN request.call_to_action[1]
                  ELSE DefaultCtas(request.topic)[(hash(request.topic) % 4) + 1]
        /\ \A j, k \in 1..Len(variations) :
              variations[j].call_to_action = variations[k].call_to_action
C18_Witness ==
    /\ pc = "returned"
    /\ request.content_type = "blog"
    /\ request.call_to_action = Some("")
    /\ variations[3].call_to_action # ""

\* C19: every variation of a digest carries the one subscribe call to action,
\* whatever the request's call_to_action, topic, audience and tone.
C19_DigestCtaFixed ==
    request.content_type = "newsletter" =>
        \A k \in 1..Len(variations) :
            variations[k].call_to_action =
                "Subscribe to our weekly newsletter for more insights like this!"
C19_Witness ==
    /\ pc = "returned"
    /\ request.content_type = "newsletter"
    /\ request.call_to_action = Some("Book a demo today.")
    /\ variations[1].call_to_action # "Book a demo today."

\* s begins with prefix
StartsWith(s, prefix) ==
    Len(prefix) <= Len(s) /\ SubSeq(s, 1, Len(prefix)) = prefix

\* The fixed call to action of each campaign-email sub-type
SubTypeCta ==
    [welcome |-> "Access Your Starter Resources ~~~",
     educational |-> "Download Free Guide ~~~",
     promotional |-> "Claim Your Spot Now ~~~"]

\* C20: the campaign email of variation index i is of the sub-type
\* [welcome, educational, promotional][i mod 3]: its content opens with that
\* sub-type's subject line and body and its call_to_action is that sub-type's
\* fixed entry, whatever the request's call_to_action; the three variations
\* of a batch carry three different calls to action.
C20_EmailSubTypeByIndex ==
    request.content_type = "email_campaign" =>
        /\ \A k \in 1..Len(variations) :
              LET sub == <<"welcome", "educational", "promotional">>[((k - 1) % 3) + 1]
              IN  /\ variations[k].call_to_action = SubTypeCta[sub]
                  /\ StartsWith(variations[k].content,
                                "**Subject Line:** "
                                \o _generate_email_subject(request.topic, sub)
                                \o "\n\n---\n\n**Email Body:**\n\n"
                                \o _generate_email_body(request.topic, sub,
                                                        request.target_audience)
                                \o "\n\n---\n")
        /\ \A j, k \in 1..Len(variations) :
              j < k => variations[j].call_to_action # variations[k].call_to_action
C20_Witness ==
    /\ pc = "returned"
    /\ request.content_type = "email_campaign"
    /\ request.call_to_action = Some("Book a demo today.")
    /\ variations[3].call_to_action = "Claim Your Spot Now ~~~"

\* The first lines of the script of variation k when its duration is minutes
ScriptOpening(k, minutes) ==
    "# Video Script: " \o variations[k].title \o "\n"
        \o "**Duration: ~" \o ToString(minutes) \o " minutes**\n"

\* The default word count the specification gives each content type
DefaultWordCount ==
    [blog |-> 800, social_media |-> 200, newsletter |-> 600,
     video_script |-> 1200, email_campaign |-> 400]

\* C21 as claimed: the script's body announces word_count div 150 minutes,
\* word_count being the request's when it has one and 1200 otherwise; the
\* per-type defaults are 800, 200, 600, 1200 and 400.
C21_DurationFromWordCount ==
    /\ request.content_type = "video_script" =>
          \A k \in 1..Len(variations) :
              LET wordCount == IF request.word_count # None
                               THEN request.word_count[1] ELSE 1200
              IN  StartsWith(variations[k].content,
                             ScriptOpening(k, wordCount \div 150))
    /\ \A t \in DOMAIN DefaultWordCount :
          _get_default_word_count(t) = DefaultWordCount[t]

\* C21 as amended: the script's body announces word_count div 150 minutes,
\* word_count being the request's when it has one other than 0, and 1200
\* otherwise (8 minutes); the per-type defaults of _get_default_word_count are
\* 800, 200, 600, 1200 and 400.
C21_DurationFromNonZeroWordCount ==
    /\ request.content_type = "video_script" =>
          \A k \in 1..Len(variations) :
              LET wordCount == IF request.word_count \notin {None, Some(0)}
                               THEN request.word_count[1] ELSE 1200
              IN  /\ StartsWith(variations[k].content,
                                ScriptOpening(k, wordCount \div 150))
                  /\ request.word_count = None =>
                        StartsWith(variations[k].content, ScriptOpening(k, 8))
    /\ \A t \in DOMAIN DefaultWordCount :
          _get_default_word_count(t) = DefaultWordCount[t]
C21_Witness ==
    /\ pc = "returned"
    /\ request.content_type = "video_script"
    /\ request.word_count = Some(0)
    /\ StartsWith(variations[1].content, ScriptOpening(1, 8))

\* C22: no step of a call, whether the call returns or raises, changes the
\* agent's three tables or the request it was called with; after any number
\* of calls the agent is as __init__ left it.
C22_CallsLeaveAgentAndRequest ==
    /\ [](agent = ContentCreationAgent)
    /\ [][agent' = agent /\ (pc # "idle" => request' = request)]_vars
C22_Witness ==
    /\ previous # None
    /\ previous[1].pc = "raised"
    /\ pc = "raised"
    /\ agent = ContentCreationAgent
    /\ request.tone = "sarcastic"


\* What generate_content gives for req when nothing else runs: lines 111-125
\* from top to bottom
RunAlone(req) ==
    IF req.content_type \notin agent.content_types
    THEN <<"raised", ContentGenerationFailed(UnsupportedContentType(req))>>
    ELSE LET built == [k \in 1..3 |-> _generate_single_variation(req, k - 1)]
             failed == {k \in 1..3 : built[k].raised}
         IN  IF failed # {}
             THEN <<"raised",
                    ContentGenerationFailed(
                        built[CHOOSE k \in failed : \A m \in failed : k <= m].message)>>
             ELSE LET outputs == [k \in 1..3 |-> built[k].value]
                  IN  <<"returned", outputs, _generate_content_analysis(req, outputs)>>

\* What a finished call gave its caller
Gave(f) ==
    IF f.pc = "returned"
    THEN <<"returned", f.variations, f.analysis>>
    ELSE <<"raised", f.error>>

TagsOf(req, variation) ==
    IF req.content_type = "social_media" THEN str_split(variation.tags)
    ELSE variation.tags

\* The integer nearest to num / den
Nearest(num, den) == (2 * num + den) \div (2 * den)

\* The entry of variation number n in the analysis: title, word count, call
\* to action and the first five of its tags
ListedVariation(req, variation, n) ==
    LET tags == TagsOf(req, variation)
        listed == SubSeq(tags, 1, Min({5, Len(tags)}))
    IN  "\n### Variation " \o ToString(n) \o ": " \o variation.title \o "\n"
        \o "- **Word Count**: " \o ToString(variation.word_count) \o "\n"
        \o "- **Call to Action**: " \o variation.call_to_action \o "\n"
        \o "- **Key Tags**: "
        \o (IF Len(listed) = 0 THEN "None" ELSE str_join(listed, ", ")) \o "\n"

\* C24: the analysis of a returned call reports the mean of the three word
\* counts to the nearest integer and lists the variations 1 to 3 in index
\* order, each with its title, word count, call to action and at most five of
\* its tags.
C24_AnalysisSummarisesVariations ==
    pc = "returned" =>
        LET total == variations[1].word_count + variations[2].word_count
                     + variations[3].word_count
            average == "- **Average Word Count**: " \o ToString(Nearest(total, 3))
                       \o " words\n"
            listing == ListedVariation(request, variations[1], 1)
                       \o ListedVariation(request, variations[2], 2)
                       \o ListedVariation(request, variations[3], 3)
        IN  /\ Len(variations) = 3
            /\ Contains(analysis, average)
            /\ Contains(analysis, listing)


\* C25: in both command-line front-ends an invalid word-count entry never ends
\* the process, and the request that reaches generate_content carries no word
\* count or a positive one (the per-type default among them).
C25_InvalidWordCountRecoverable ==
    /\ ui.pc # "crashed"
    /\ ui.pc = "calling" =>
           \/ request.word_count = None
           \/ request.word_count[1] > 0

\* C26: in content_ui, the step that follows the display of the results of a
\* successful call offers the save option, and when the user accepts it the
\* files written hold one record per variation with the topic, type,
\* audience, tone, title, word count, call to action, tags and body.
C26_SaveOfferedAfterDisplay ==
    [][(ui.front = "content_ui" /\ ui.pc = "displayed" /\ ui'.pc # "displayed") =>
          /\ ui'.offered
          /\ ui'.answer = "y" =>
                 \A n \in 1..Len(variations) :
                     \E file \in ui'.written :
                         LET variation == variations[n]
                         IN  /\ Contains(file.text, "Topic: " \o request.topic \o "\n")
                             /\ Contains(file.text,
                                         "Type: " \o request.content_type \o "\n")
                             /\ Contains(file.text,
                                         "Audience: " \o request.target_audience \o "\n")
                             /\ Contains(file.text, "Tone: " \o request.tone \o "\n")
                             /\ Contains(file.text, "Title: " \o variation.title \o "\n")
                             /\ Contains(file.text,
                                         "Word Count: " \o ToString(variation.word_count)
                                         \o "\n")
                             /\ Contains(file.text, variation.call_to_action)
                             /\ \A t \in 1..Len(variation.tags) :
                                    Contains(file.text, variation.tags[t])
                             /\ Contains(file.text, variation.content)]_vars


\* A topic without "Benefits of " where it starts the topic and without " for"
\* where it ends the topic
EndsTrimmed(topic) ==
    LET led == IF StartsWith(topic, "Benefits of ") THEN Drop(topic, Len("Benefits of "))
               ELSE topic
    IN  IF Len(led) >= Len(" for") /\ SubSeq(led, Len(led) - Len(" for") + 1, Len(led)) = " for"
        THEN Take(led, -Len(" for"))
        ELSE led

\* C27: the normalized topic is the topic without "Benefits of " at its start
\* and without " for" at its end; either fragment elsewhere stays, and a topic
\* with neither is returned as it is.
C27_FragmentsRemovedAtEndsOnly ==
    fpc = "done" => output[1] = EndsTrimmed(input)


SixHeadings ==
    <<"The Problem", "The Solution", "Key Benefits", "Implementation",
      "Real-World Examples", "Conclusion">>

\* C28: every variation of a returned article has exactly the six fixed
\* headings, in order, whatever the topic str is, and its introduction holds
\* no heading.
C28_SixHeadingsForEveryTopic ==
    (pc = "returned" /\ request.content_type = "blog") =>
        /\ \A k \in 1..3 : variations[k].headings = SixHeadings
        /\ _extract_headings(
               _generate_blog_introduction(request.topic,
                                           audience_profile(request.target_audience),
                                           agent.tone_templates[request.tone])) = << >>


\* The content types whose builders do not use the requested word count
WordCountBlind == {"blog", "social_media", "newsletter", "email_campaign"}

\* C29: for an article, short-post, digest or campaign-email request the
\* word_count of the request has no effect: the request with no word count and
\* the one with any other word count yield the variations this one yielded,
\* title, body, headings, call to action, tags and reported word count alike.
C29_WordCountWithoutEffect ==
    (pc = "returned" /\ request.content_type \in WordCountBlind) =>
        \A wc \in {None, Some(0), Some(100), Some(900)} :
            LET other == [request EXCEPT !.word_count = wc]
            IN  \A k \in 1..3 :
                    _generate_single_variation(other, k - 1) = Return(variations[k])

\* An article request that asks for 900 words has returned
C29_Witness ==
    /\ pc = "returned"
    /\ request.content_type = "blog"
    /\ request.word_count = Some(900)
    /\ Len(variations) = 3
    /\ variations[1].word_count # 900


\* The three section headers of a script whose duration is d minutes
TimedHeaders(d) ==
    <<"## Main Content (45 seconds - " \o ToString(d - 1) \o " minutes)\n",
      "## Demonstration/Example (" \o ToString(d - 1) \o "-" \o ToString(d - 1)
      \o ".5 minutes)\n",
      "## Conclusion (" \o ToString(d - 1) \o ".5-" \o ToString(d) \o " minutes)\n">>

\* C30: every variation of a script request with a positive word_count
\* carries the section headers of its duration d = word_count div 150 with
\* the bounds d - 1, d - 0.5 and d written as numbers that are not negative
\* and do not decrease.
C30_HeaderBoundsNotNegative ==
    (/\ pc = "returned"
     /\ request.content_type = "video_script"
     /\ request.word_count # None
     /\ request.word_count[1] > 0) =>
        LET d == request.word_count[1] \div 150
            headers == TimedHeaders(d)
        IN  /\ d - 1 >= 0
            /\ \A k \in 1..3 :
                   \A h \in 1..3 : Contains(variations[k].content, headers[h])

=============================================================================
